---------------------------- MODULE Spec2Model ----------------------------
(***************************************************************************)
(* Linear spin-wave (LSWT) scripts of takin: the spin-rotation frame, the  *)
(* Fourier-transformed couplings, the bosonic Hamiltonian, its solve, and  *)
(* the dispersion scans (serial and pooled) built on top of them.          *)
(*                                                                         *)
(* Numbers.  The scripts compute in complex double precision.  The model   *)
(* computes exactly: a real is a reduced fraction <<n, d>> (d > 0), a      *)
(* complex number a pair <<re, im>> of reals.  Momentum transfers lie on   *)
(* the quarter grid (Q = Q4 / 4 with Q4 integer) and lattice translations  *)
(* are integer, so every phase exp(-2 pi i dist.Q) is a power of -i and is *)
(* exact.  Square roots are taken only of exact squares; the inputs drawn  *)
(* in the initial states are those for which this is the case.             *)
(* Indices are 0-based as in the scripts; 3-vectors and 3x3 matrices are   *)
(* tuples indexed 1..3.                                                    *)
(***************************************************************************)
EXTENDS Integers, Sequences, FiniteSets, TLC

(***************************************************************************)
(* Exact real arithmetic                                                   *)
(***************************************************************************)
Abs(n) == IF n < 0 THEN -n ELSE n

RECURSIVE GCD(_, _)
GCD(a, b) == IF b = 0 THEN a ELSE GCD(b, a % b)

\* the reduced fraction n/d, d # 0
Frac(n, d) ==
  LET g == GCD(Abs(n), Abs(d))
      s == IF d < 0 THEN -1 ELSE 1
  IN  <<(s * n) \div g, (s * d) \div g>>

RInt(n) == <<n, 1>>
R0 == <<0, 1>>
R1 == <<1, 1>>
\* sums and products cancel common factors before they multiply, and take
\* the short way for integers and for zero
RAdd(a, b) ==
  IF a[2] = 1 /\ b[2] = 1 THEN <<a[1] + b[1], 1>>
  ELSE IF a[1] = 0 THEN b
  ELSE IF b[1] = 0 THEN a
  ELSE LET g == GCD(a[2], b[2])
       IN  Frac(a[1] * (b[2] \div g) + b[1] * (a[2] \div g),
                (a[2] \div g) * b[2])
RNeg(a) == <<-a[1], a[2]>>
RSub(a, b) == RAdd(a, RNeg(b))
RMul(a, b) ==
  IF a[1] = 0 \/ b[1] = 0 THEN <<0, 1>>
  ELSE IF a[2] = 1 /\ b[2] = 1 THEN <<a[1] * b[1], 1>>
  ELSE LET g1 == GCD(Abs(a[1]), b[2])
           g2 == GCD(Abs(b[1]), a[2])
       IN  <<(a[1] \div g1) * (b[1] \div g2), (a[2] \div g2) * (b[2] \div g1)>>
RDiv(a, b) == RMul(a, Frac(b[2], b[1]))
RLess(a, b) ==
  LET g == GCD(a[2], b[2])
  IN  a[1] * (b[2] \div g) < b[1] * (a[2] \div g)
RLeq(a, b) ==
  LET g == GCD(a[2], b[2])
  IN  a[1] * (b[2] \div g) <= b[1] * (a[2] \div g)
RAbs(a) == <<Abs(a[1]), a[2]>>

\* integer square root (floor) of n >= 0
ISqrt(n) == CHOOSE k \in 0..n : k * k <= n /\ n < (k + 1) * (k + 1)
IsSquare(n) == n >= 0 /\ ISqrt(n) * ISqrt(n) = n
\* a >= 0 is the square of a fraction
RIsSquare(a) == IsSquare(a[1]) /\ IsSquare(a[2])
RSqrt(a) == <<ISqrt(a[1]), ISqrt(a[2])>>

(***************************************************************************)
(* Exact complex arithmetic                                                *)
(***************************************************************************)
Cx(re, im) == <<re, im>>
CRe(z) == z[1]
CIm(z) == z[2]
C0 == Cx(R0, R0)
CReal(r) == Cx(r, R0)
CAdd(a, b) == Cx(RAdd(a[1], b[1]), RAdd(a[2], b[2]))
CSub(a, b) == Cx(RSub(a[1], b[1]), RSub(a[2], b[2]))
CNeg(a) == Cx(RNeg(a[1]), RNeg(a[2]))
CMul(a, b) ==
  IF a = <<<<0, 1>>, <<0, 1>>>> \/ b = <<<<0, 1>>, <<0, 1>>>>
  THEN <<<<0, 1>>, <<0, 1>>>>
  ELSE Cx(RSub(RMul(a[1], b[1]), RMul(a[2], b[2])),
          RAdd(RMul(a[1], b[2]), RMul(a[2], b[1])))
CConj(a) == Cx(a[1], RNeg(a[2]))
CScale(r, a) == Cx(RMul(r, a[1]), RMul(r, a[2]))

I3 == 1..3

\* arrays are built element by element, as tuples: the 3-vector
\* <<F(1), F(2), F(3)>>, the 3x3 matrix with entries F(r, c), and the list
\* F(0), ..., F(n - 1) for n <= 6 (three sites), which holds the element of
\* index k at position k + 1
Vec3(F(_)) == <<F(1), F(2), F(3)>>
Mat3(F(_, _)) ==
  << <<F(1, 1), F(1, 2), F(1, 3)>>,
     <<F(2, 1), F(2, 2), F(2, 3)>>,
     <<F(3, 1), F(3, 2), F(3, 3)>> >>
Tab(n, F(_)) ==
  IF n = 0 THEN <<>>
  ELSE IF n = 1 THEN <<F(0)>>
  ELSE IF n = 2 THEN <<F(0), F(1)>>
  ELSE IF n = 3 THEN <<F(0), F(1), F(2)>>
  ELSE IF n = 4 THEN <<F(0), F(1), F(2), F(3)>>
  ELSE IF n = 5 THEN <<F(0), F(1), F(2), F(3), F(4)>>
  ELSE <<F(0), F(1), F(2), F(3), F(4), F(5)>>
Tab2(n, F(_, _)) == Tab(n, LAMBDA r : Tab(n, LAMBDA c : F(r, c)))
\* A[r, c] of an array built by Tab2, r and c counted from 0
At(A, r, c) == A[r + 1][c + 1]

\* numpy.dot of two complex 3-vectors (no conjugation)
CDot(a, b) ==
  CAdd(CMul(a[1], b[1]), CAdd(CMul(a[2], b[2]), CMul(a[3], b[3])))
\* numpy.dot of a complex 3x3 matrix and a complex 3-vector
CMatVec(M, x) == Vec3(LAMBDA r : CDot(M[r], x))
CVecConj(x) == Vec3(LAMBDA k : CConj(x[k]))
CVecOfReal(x) == Vec3(LAMBDA k : CReal(x[k]))
CMatAdd(A, B) == Mat3(LAMBDA r, c : CAdd(A[r][c], B[r][c]))
CMatScale(z, A) == Mat3(LAMBDA r, c : CMul(z, A[r][c]))
\* M.transpose().conj()
CMatAdjoint(A) == Mat3(LAMBDA r, c : CConj(A[c][r]))
CMatTranspose(A) == Mat3(LAMBDA r, c : A[c][r])
CMatOfReal(A) == Mat3(LAMBDA r, c : CReal(A[r][c]))
CMat0 == Mat3(LAMBDA r, c : C0)

(***************************************************************************)
(* Real 3-vectors and 3x3 matrices                                         *)
(***************************************************************************)
RDot(a, b) ==
  RAdd(RMul(a[1], b[1]), RAdd(RMul(a[2], b[2]), RMul(a[3], b[3])))
RVecOfInt(x) == Vec3(LAMBDA k : RInt(x[k]))
RVecScale(r, x) == Vec3(LAMBDA k : RMul(r, x[k]))
RVecNeg(x) == Vec3(LAMBDA k : RNeg(x[k]))
\* numpy.cross
RCross(a, b) ==
  << RSub(RMul(a[2], b[3]), RMul(a[3], b[2])),
     RSub(RMul(a[3], b[1]), RMul(a[1], b[3])),
     RSub(RMul(a[1], b[2]), RMul(a[2], b[1])) >>
\* numpy.outer
ROuter(a, b) == Mat3(LAMBDA r, c : RMul(a[r], b[c]))
RDiag(d) == Mat3(LAMBDA r, c : IF r = c THEN d ELSE R0)
RMatAdd(A, B) == Mat3(LAMBDA r, c : RAdd(A[r][c], B[r][c]))
RMatSub(A, B) == Mat3(LAMBDA r, c : RSub(A[r][c], B[r][c]))
RMatScale(s, A) == Mat3(LAMBDA r, c : RMul(s, A[r][c]))
RMatTranspose(A) == Mat3(LAMBDA r, c : A[c][r])
RMatMul(A, B) ==
  Mat3(LAMBDA r, c :
     RAdd(RMul(A[r][1], B[1][c]),
          RAdd(RMul(A[r][2], B[2][c]), RMul(A[r][3], B[3][c]))))
RDet3(A) ==
  RAdd(RSub(RMul(A[1][1], RSub(RMul(A[2][2], A[3][3]), RMul(A[2][3], A[3][2]))),
            RMul(A[1][2], RSub(RMul(A[2][1], A[3][3]), RMul(A[2][3], A[3][1])))),
       RMul(A[1][3], RSub(RMul(A[2][1], A[3][2]), RMul(A[2][2], A[3][1]))))
\* numpy.linalg.norm of a 3-vector whose squared length is an exact square
RNorm(x) == RSqrt(RDot(x, x))


(***************************************************************************)
(* State                                                                   *)
(***************************************************************************)
VARIABLES
  sites,      \* the magnetic sites: 0..N-1 -> dict with S, Sdir and, once
              \* the rotation loop has passed the site, u and v
  site_idx,   \* rotation loop: index of the next site to process
  rot,        \* rotation loop: the rotation matrix computed last
  couplings,  \* the magnetic couplings: list of dicts with sites, J, DMI,
              \* dist and J_real
  Qvec,       \* get_energies: its argument, in quarters (4 * Qvec)
  cpl_idx,    \* get_energies: position of the loop over the couplings
  J_fourier,  \* get_energies: local array J_fourier
  J0_fourier, \* get_energies: local array J0_fourier
  H,          \* get_energies: local array H
  ge_pc,      \* get_energies: "fourier", "trafo", "eigvals", "returned",
              \* or "LinAlgError" when la.cholesky has raised
  ge_Es,      \* get_energies: the returned array Es
  ge_calls,   \* the calls of get_energies made so far: Qvec and outcome
  ge_script,  \* which script's get_energies runs: "tests" (tests/ferro.py)
              \* or "examples" (examples/ferro.py)
  scan_script,   \* dispersion scan: "tests_ferro", "tests_afm" (tests/ferro.py
                 \* with is_ferromagnetic True, False) or "examples"
  scan_only_pos, \* dispersion scan: the option only_pos_E
  scan_num,   \* dispersion scan: the number of points of np.linspace
  scan_k,     \* dispersion scan: passes of the loop made so far
  hs,         \* dispersion scan: the list hs, in quarters
  Es,         \* dispersion scan: the list Es
  ge_log,     \* dispersion scan: the arguments get_energies was called
              \* with, in the order of the calls (what print_infos shows)
  pool_script,    \* pooled scan: "calc_dispersion", "load_model" or "calc3"
  pool_num,       \* pooled scan: num_Q_points
  pool_pc,        \* pooled scan: "submit", "collect" or "done"
  pool_futures,   \* pooled scan: the list Es_futures
  pool_order,     \* pooled scan: the tasks in the order they completed
  pool_collected, \* pooled scan: the tasks whose result has been taken
  data,           \* pooled scan: the data points appended so far
  mag_results,    \* pooled scan: what mag.CalcEnergies returned, per Q point
  pool_print_progress, \* pooled scan: the option print_progress
  pool_reports,   \* pooled scan: the counts the progress loop has printed
  takin_fn,   \* Takin interface: the function called, "TakinDisp" or
              \* "TakinSqw"
  takin_args, \* Takin interface: its arguments h, k, l (in quarters) and E
  takin_pc,   \* Takin interface: "called" or "done"
  takin_out,  \* Takin interface: how the call ended
  call_fn,    \* a function of the scripts called on its own: its name,
  call_args,  \* its arguments and the module-level options it reads,
  call_pc,    \* "called" or "done",
  call_out    \* and what it has returned or stored

frameVars == <<sites, site_idx, rot>>
geVars ==
  <<couplings, Qvec, cpl_idx, J_fourier, J0_fourier, H, ge_pc, ge_Es, ge_calls,
    ge_script>>
scanVars == <<scan_script, scan_only_pos, scan_num, scan_k, hs, Es, ge_log>>
poolVars ==
  <<pool_script, pool_num, pool_pc, pool_futures, pool_order, pool_collected,
    data, mag_results, pool_print_progress, pool_reports>>
takinVars == <<takin_fn, takin_args, takin_pc, takin_out>>
callVars == <<call_fn, call_args, call_pc, call_out>>
vars == <<frameVars, geVars, scanVars, poolVars, takinVars, callVars>>

\* no get_energies call, no scan and no Takin call is under way
EnergiesIdle ==
  /\ couplings = <<>>
  /\ Qvec = <<0, 0, 0>>
  /\ cpl_idx = 1
  /\ J_fourier = <<>>
  /\ J0_fourier = <<>>
  /\ H = <<>>
  /\ ge_pc = "idle"
  /\ ge_Es = <<>>
  /\ ge_calls = <<>>
  /\ ge_script = "tests"
ScanIdle ==
  /\ scan_script = "none"
  /\ scan_only_pos = FALSE
  /\ scan_num = 0
  /\ scan_k = 0
  /\ hs = <<>>
  /\ Es = <<>>
  /\ ge_log = <<>>
PoolIdle ==
  /\ pool_script = "none"
  /\ pool_num = 0
  /\ pool_pc = "idle"
  /\ pool_futures = <<>>
  /\ pool_order = <<>>
  /\ pool_collected = <<>>
  /\ data = <<>>
  /\ mag_results = <<>>
  /\ pool_print_progress = FALSE
  /\ pool_reports = <<>>
TakinIdle ==
  /\ takin_fn = "none"
  /\ takin_args = <<>>
  /\ takin_pc = "idle"
  /\ takin_out = <<>>
CallIdle ==
  /\ call_fn = "none"
  /\ call_args = <<>>
  /\ call_pc = "idle"
  /\ call_out = <<>>

(***************************************************************************)
(* Frame builder: tests/ferro.py, the loop "for site in sites"             *)
(***************************************************************************)
\* skew-symmetric (cross-product) matrix
skew(vec) ==
  << <<R0, vec[3], RNeg(vec[2])>>,
     <<RNeg(vec[3]), R0, vec[1]>>,
     <<vec[2], RNeg(vec[1]), R0>> >>

zdir == <<R0, R0, R1>>

\* numpy.isclose for one component: |a - b| <= atol + rtol * |b| with the
\* defaults atol = 1e-8, rtol = 1e-5, that is
\* |a - b| * 10^8 <= 1 + 1000 * |b|, evaluated without leaving 32 bits
IsClose(a, b) ==
  LET x == RAbs(RSub(a, b))
      y == RAbs(b)
  IN  x[1] * y[2] <= (x[2] * (y[2] + 1000 * y[1])) \div 100000000
AllClose(a, b) == \A k \in I3 : IsClose(a[k], b[k])

\* sine, cosine and axis of the rotation of one site
RotParamsBadElse(Sdir) ==
  IF AllClose(Sdir, zdir)
  THEN [c |-> R1, s |-> R0, rotaxis |-> <<R0, R1, R0>>]
  ELSE IF AllClose(Sdir, RVecNeg(zdir))
  THEN [c |-> RNeg(R1), s |-> R0, rotaxis |-> <<R0, R1, R0>>]
  ELSE LET axis == RCross(Sdir, zdir)
           s    == RNorm(axis)
       IN  [c |-> RDot(Sdir, zdir), s |-> s, rotaxis |-> axis]
RotParams(Sdir) ==
  IF AllClose(Sdir, zdir)
  THEN [c |-> R1, s |-> R0, rotaxis |-> <<R0, R1, R0>>]
  ELSE IF AllClose(Sdir, RVecNeg(zdir))
  THEN [c |-> RNeg(R1), s |-> R0, rotaxis |-> <<R0, R1, R0>>]
  ELSE LET axis == RCross(Sdir, zdir)
           s    == RNorm(axis)
       IN  [c |-> RDot(Sdir, zdir), s |-> s,
            rotaxis |-> RVecScale(RDiv(R1, s), axis)]

\* rotation via rodrigues' formula
RodriguesPlusSkew(p) ==
  RMatAdd(RMatAdd(RMatScale(RSub(R1, p.c), ROuter(p.rotaxis, p.rotaxis)),
                  RDiag(p.c)),
          RMatScale(p.s, skew(p.rotaxis)))
Rodrigues(p) ==
  RMatSub(RMatAdd(RMatScale(RSub(R1, p.c), ROuter(p.rotaxis, p.rotaxis)),
                  RDiag(p.c)),
          RMatScale(p.s, skew(p.rotaxis)))

\* Sdir = np.array(site["Sdir"]) / la.norm(site["Sdir"])
NormalisedSdir(SdirRaw) ==
  RVecScale(RDiv(R1, RNorm(RVecOfInt(SdirRaw))), RVecOfInt(SdirRaw))

\* IEEE not-a-number, written as the fraction 0/0: the value of 0./0. in
\* numpy, which raises nothing (a RuntimeWarning is printed)
NaN == <<0, 0>>
NaNMat == Mat3(LAMBDA r, c : NaN)

\* the loop body up to "rot = ...".  For the zero vector la.norm is 0. and
\* every component of Sdir is 0./0. = nan: both np.allclose tests are False,
\* rotaxis, s and c are nan, and every entry of rot is a sum with a nan term
SpinRotation(SdirRaw) ==
  IF RNorm(RVecOfInt(SdirRaw)) = R0
  THEN NaNMat
  ELSE Rodrigues(RotParams(NormalisedSdir(SdirRaw)))

\* site["u"] = rot[0, :] + 1j * rot[1, :]
FrameU(R) == Vec3(LAMBDA k : Cx(R[1][k], R[2][k]))
\* site["v"] = rot[2, :]
FrameV(R) == R[3]

\* the site dict after the loop body has run on it
WithFrame(site) ==
  LET R == SpinRotation(site.Sdir)
  IN  [S |-> site.S, Sdir |-> site.Sdir, u |-> FrameU(R), v |-> FrameV(R)]

(***************************************************************************)
(* Bounds of the frame-builder inputs                                      *)
(***************************************************************************)
MaxCoord == 4        \* |component| of an Sdir as written in the model
MaxFrameSites == 2   \* sites in the rotation loop's model

Coords == (-MaxCoord)..MaxCoord
\* the directions (one vector per direction) whose normalisation and
\* rotation are exact
SdirSet ==
  { d \in Coords \X Coords \X Coords :
      /\ d # <<0, 0, 0>>
      /\ GCD(GCD(Abs(d[1]), Abs(d[2])), Abs(d[3])) = 1
      /\ IsSquare(d[1] * d[1] + d[2] * d[2] + d[3] * d[3])
      /\ IsSquare(d[1] * d[1] + d[2] * d[2]) }

RawSite == [S : {R1}, Sdir : SdirSet]

InitFrame ==
  /\ \E n \in 1..MaxFrameSites : sites \in [0..(n - 1) -> RawSite]
  /\ site_idx = 0
  /\ rot = RDiag(R0)
  /\ EnergiesIdle
  /\ ScanIdle
  /\ PoolIdle
  /\ TakinIdle
  /\ CallIdle

\* one pass of the loop body
RotateSite ==
  /\ site_idx \in DOMAIN sites
  /\ rot' = SpinRotation(sites[site_idx].Sdir)
  /\ sites' = [sites EXCEPT ![site_idx] = WithFrame(@)]
  /\ site_idx' = site_idx + 1
  /\ UNCHANGED <<geVars, scanVars, poolVars, takinVars, callVars>>

NextFrame == RotateSite
SpecFrame == InitFrame /\ [][NextFrame]_vars

\* the same loop on a site list in which an Sdir may be the zero vector
AnySdirSet == SdirSet \cup {<<0, 0, 0>>}
AnyRawSite == [S : {R1}, Sdir : AnySdirSet]
InitFrameAny ==
  /\ \E n \in 1..MaxFrameSites : sites \in [0..(n - 1) -> AnyRawSite]
  /\ site_idx = 0
  /\ rot = RDiag(R0)
  /\ EnergiesIdle
  /\ ScanIdle
  /\ PoolIdle
  /\ TakinIdle
  /\ CallIdle
SpecFrameAny == InitFrameAny /\ [][NextFrame]_vars


(***************************************************************************)
(* Real interaction matrices: tests/ferro.py, "for coupling in couplings"  *)
(***************************************************************************)
\* coupling["J_real"] = np.diag([ J, J, J ]) + skew(coupling["DMI"])
JReal(J, DMI) == RMatAdd(RDiag(RInt(J)), skew(RVecOfInt(DMI)))
WithJReal(cpl) ==
  [sites |-> cpl.sites, J |-> cpl.J, DMI |-> cpl.DMI, dist |-> cpl.dist,
   J_real |-> JReal(cpl.J, cpl.DMI)]

(***************************************************************************)
(* get_energies, part 1: fourier transform interaction matrices            *)
(***************************************************************************)
NumSites(st) == Cardinality(DOMAIN st)

\* np.zeros((num_sites, num_sites, 3, 3), dtype = complex)
ZeroBlocks(st) == Tab2(NumSites(st), LAMBDA i, j : CMat0)

\* np.dot(dist, Qvec) in quarters: Q4 = 4 * Qvec
DistDotQ4(dist, Q4) == dist[1] * Q4[1] + dist[2] * Q4[2] + dist[3] * Q4[3]
\* np.exp(-1j * 2.*np.pi * n / 4) = (-i)^n
Phase(n) ==
  LET r == n % 4
  IN  IF r = 0 THEN Cx(R1, R0)
      ELSE IF r = 1 THEN Cx(R0, RNeg(R1))
      ELSE IF r = 2 THEN Cx(RNeg(R1), R0)
      ELSE Cx(R0, R1)

\* J_ft = J_real * np.exp(-1j * 2.*np.pi * np.dot(dist, Qvec))
JFt(cpl, Q4) ==
  CMatScale(Phase(DistDotQ4(cpl.dist, Q4)), CMatOfReal(cpl.J_real))

\* numpy indexing of an axis of length n: an index in [-n, n) is accepted,
\* a negative one counting from the end; any other raises IndexError
NpIndexOk(i, n) == -n <= i /\ i < n
NpIndex(i, n) == IF i < 0 THEN i + n ELSE i

\* A[r, c] += M on a num_sites x num_sites array of 3x3 blocks
AddBlock(A, r, c, M) ==
  [A EXCEPT ![NpIndex(r, Len(A)) + 1][NpIndex(c, Len(A)) + 1] = CMatAdd(@, M)]
SetBlock(A, r, c, M) ==
  [A EXCEPT ![NpIndex(r, Len(A)) + 1][NpIndex(c, Len(A)) + 1] = M]

\* the two statements on J_fourier of the loop body, in their order
FourierBodyOverwrite(Jf, cpl, Q4) ==
  LET site1 == cpl.sites[1]
      site2 == cpl.sites[2]
      J_ft  == JFt(cpl, Q4)
  IN  SetBlock(SetBlock(Jf, site1, site2, J_ft),
               site2, site1, CMatAdjoint(J_ft))
FourierBodyNoAdjoint(Jf, cpl, Q4) ==
  LET site1 == cpl.sites[1]
      site2 == cpl.sites[2]
      J_ft  == JFt(cpl, Q4)
  IN  AddBlock(AddBlock(Jf, site1, site2, J_ft),
               site2, site1, CMatTranspose(J_ft))
FourierBody(Jf, cpl, Q4) ==
  LET site1 == cpl.sites[1]
      site2 == cpl.sites[2]
      J_ft  == JFt(cpl, Q4)
  IN  AddBlock(AddBlock(Jf, site1, site2, J_ft),
               site2, site1, CMatAdjoint(J_ft))
\* the two statements on J0_fourier of the loop body, in their order
Fourier0Body(J0, cpl) ==
  LET site1 == cpl.sites[1]
      site2 == cpl.sites[2]
      J_r   == CMatOfReal(cpl.J_real)
  IN  AddBlock(AddBlock(J0, site1, site2, J_r),
               site2, site1, CMatAdjoint(J_r))

\* the whole loop "for coupling in couplings", from coupling k on
RECURSIVE FourierLoop(_, _, _, _)
FourierLoop(Jf, cpls, Q4, k) ==
  IF k > Len(cpls) THEN Jf
  ELSE FourierLoop(FourierBody(Jf, cpls[k], Q4), cpls, Q4, k + 1)
RECURSIVE Fourier0Loop(_, _, _)
Fourier0Loop(J0, cpls, k) ==
  IF k > Len(cpls) THEN J0
  ELSE Fourier0Loop(Fourier0Body(J0, cpls[k]), cpls, k + 1)

(***************************************************************************)
(* get_energies, part 2: hamiltonian                                       *)
(***************************************************************************)
\* np.zeros((2*num_sites, 2*num_sites), dtype = complex)
ZeroH(st) == Tab2(2 * NumSites(st), LAMBDA r, c : C0)

\* np.dot(a, np.dot(M, b))
Bilinear(a, M, b) == CDot(a, CMatVec(M, b))

HAdd(Hm, r, c, z) == [Hm EXCEPT ![r + 1][c + 1] = CAdd(@, z)]
HSubAssign(Hm, r, c, z) == [Hm EXCEPT ![r + 1][c + 1] = CNeg(z)]
HSub(Hm, r, c, z) == [Hm EXCEPT ![r + 1][c + 1] = CSub(@, z)]

\* S = 0.5 * np.sqrt(S_i * S_j)
HalfProduct(S_i, S_j) == RMul(<<1, 2>>, RMul(S_i, S_j))
HalfSqrt(S_i, S_j) == RMul(<<1, 2>>, RSqrt(RMul(S_i, S_j)))

\* the last statement of the inner loop body:
\* H[num_sites + i, j] += (S * np.dot(u_j, np.dot(J_fourier[j, i], u_i))).conj()
LowerLeftTermNoConj(st, Jf, i, j) ==
  CScale(HalfSqrt(st[i].S, st[j].S), Bilinear(st[j].u, At(Jf, j, i), st[i].u))
LowerLeftTerm(st, Jf, i, j) ==
  CConj(CScale(HalfSqrt(st[i].S, st[j].S),
               Bilinear(st[j].u, At(Jf, j, i), st[i].u)))

\* the body of the inner loop "for j in range(num_sites)", six statements
HamBody(Hm, st, Jf, J0, i, j) ==
  LET n   == NumSites(st)
      S_j == st[j].S
      u_i == st[i].u
      u_j == st[j].u
      v_i == CVecOfReal(st[i].v)
      v_j == CVecOfReal(st[j].v)
      S   == HalfSqrt(st[i].S, S_j)
      H1  == HAdd(Hm, i, j, CScale(S, Bilinear(u_i, At(Jf, i, j), CVecConj(u_j))))
      H2  == HSub(H1, i, i, CScale(S_j, Bilinear(v_i, At(J0, i, j), v_j)))
      H3  == HAdd(H2, n + i, n + j,
                  CScale(S, Bilinear(CVecConj(u_i), At(Jf, i, j), u_j)))
      H4  == HSub(H3, n + i, n + i, CScale(S_j, Bilinear(v_i, At(J0, i, j), v_j)))
      H5  == HAdd(H4, i, n + j, CScale(S, Bilinear(u_i, At(Jf, i, j), u_j)))
  IN  HAdd(H5, n + i, j, LowerLeftTerm(st, Jf, i, j))

\* both loops, "for i" outside and "for j" inside, from pair k = i * N + j on
RECURSIVE HamLoop(_, _, _, _, _)
HamLoop(Hm, st, Jf, J0, k) ==
  LET n == NumSites(st)
  IN  IF k >= n * n THEN Hm
      ELSE HamLoop(HamBody(Hm, st, Jf, J0, k \div n, k % n), st, Jf, J0, k + 1)

Hamiltonian(st, Jf, J0) == HamLoop(ZeroH(st), st, Jf, J0, 0)

(***************************************************************************)
(* get_energies, part 3: trafo.  C = la.cholesky(H)                        *)
(***************************************************************************)
\* numpy.linalg.cholesky (LAPACK zpotrf, lower triangle) eliminates one
\* column after the other; the number it takes the root of in step k is the
\* real part of the k-th diagonal entry of the remaining lower triangle; it
\* raises LinAlgError when that number is not positive.  The remaining
\* triangle after a step has entries A[r][c] - A[r][0] conj(A[c][0]) / A[0][0]
\* for r >= c >= 1 (an entry above the diagonal is never read).
Remaining(A) ==
  LET pivot == CRe(At(A, 0, 0))
  IN  Tab2(Len(A) - 1, LAMBDA r, c :
         IF c > r THEN C0
         ELSE CSub(At(A, r + 1, c + 1),
                   CScale(RDiv(R1, pivot),
                          CMul(At(A, r + 1, 0), CConj(At(A, c + 1, 0))))))

\* TRUE when la.cholesky(H) returns, FALSE when it raises LinAlgError
RECURSIVE CholeskyOk(_)
CholeskyOk(A) ==
  IF Len(A) = 0 THEN TRUE
  ELSE IF RLeq(CRe(At(A, 0, 0)), R0) THEN FALSE
  ELSE CholeskyOk(Remaining(A))


(***************************************************************************)
(* get_energies, part 4: Es = np.real(la.eigvals(H_trafo))                 *)
(*                                                                         *)
(* With H = C C^+ (numpy's lower factor) the script forms                  *)
(* H_trafo = C^+ g C, g = diag(+1 x N, -1 x N).  C holds square roots, so  *)
(* H_trafo is not formed here; C^+ (g C) and (g C) C^+ = g H have the same  *)
(* eigenvalues with the same multiplicities, and the eigenvalues are read  *)
(* off the characteristic polynomial of g H.                               *)
(***************************************************************************)
Dim(A) == Len(A)

RECURSIVE CSumSeq(_)
CSumSeq(zs) == IF zs = <<>> THEN C0 ELSE CAdd(Head(zs), CSumSeq(Tail(zs)))
\* F(0) + ... + F(n - 1)
CSumTo(n, F(_)) == CSumSeq(Tab(n, F))

SqMul(A, B) ==
  Tab2(Dim(A), LAMBDA r, c :
     CSumTo(Dim(A), LAMBDA k : CMul(At(A, r, k), At(B, k, c))))
SqAddDiag(A, z) ==
  Tab2(Dim(A), LAMBDA r, c :
     IF r = c THEN CAdd(At(A, r, c), z) ELSE At(A, r, c))
SqTrace(A) == CSumTo(Dim(A), LAMBDA k : At(A, k, k))
SqZero(A) == Tab2(Dim(A), LAMBDA r, c : C0)

\* signs = np.diag(np.concatenate((np.repeat(1, N), np.repeat(-1, N))))
\* np.dot(signs, H)
SignsTimesUnit(Hm) == Hm
SignsTimes(Hm) ==
  Tab2(Dim(Hm), LAMBDA r, c :
     IF 2 * r < Dim(Hm) THEN At(Hm, r, c) ELSE CNeg(At(Hm, r, c)))

\* characteristic polynomial det(x - A), coefficients from x^n down to x^0
\* (Faddeev-LeVerrier): M_k = A M_(k-1) + c_(n-k+1), c_(n-k) = -tr(A M_k)/k
RECURSIVE CharPolyFrom(_, _, _, _)
CharPolyFrom(A, Mprev, coeffs, k) ==
  IF k > Dim(A) THEN coeffs
  ELSE LET Mk == SqAddDiag(SqMul(A, Mprev), coeffs[Len(coeffs)])
           ck == CScale(Frac(-1, k), SqTrace(SqMul(A, Mk)))
       IN  CharPolyFrom(A, Mk, Append(coeffs, ck), k + 1)
CharPoly(A) == CharPolyFrom(A, SqZero(A), <<Cx(R1, R0)>>, 1)

\* Horner: the running values b_1 .. b_(n+1); the last one is p(x)
RECURSIVE Horner(_, _, _)
Horner(p, x, acc) ==
  IF Len(acc) = Len(p) THEN acc
  ELSE Horner(p, x,
         Append(acc, CAdd(p[Len(acc) + 1],
                          IF acc = <<>> THEN C0
                          ELSE CScale(x, acc[Len(acc)]))))
PolyAt(p, x) == Horner(p, x, <<>>)[Len(p)]
PolyDivided(p, x) == SubSeq(Horner(p, x, <<>>), 1, Len(p) - 1)

\* multiplicity of the root x of p
RECURSIVE Multiplicity(_, _)
Multiplicity(p, x) ==
  IF Len(p) <= 1 \/ PolyAt(p, x) # C0 THEN 0
  ELSE 1 + Multiplicity(PolyDivided(p, x), x)

\* the energies the model can hold: k / EnergyDen with |k| <= MaxEnergyNum
MaxEnergyNum == 16
EnergyDen == 2
EnergyGrid == (-MaxEnergyNum)..MaxEnergyNum

\* the eigenvalues of the polynomial cp among k / EnergyDen, as the set of k
RootsOf(cp) == { k \in EnergyGrid : PolyAt(cp, Frac(k, EnergyDen)) = C0 }

\* the roots ks in descending order, each repeated by its multiplicity
RECURSIVE Descending(_, _)
Descending(cp, ks) ==
  IF ks = {} THEN <<>>
  ELSE LET top == CHOOSE k \in ks : \A w \in ks : w <= k
       IN  Tab(Multiplicity(cp, Frac(top, EnergyDen)),
               LAMBDA n : Frac(top, EnergyDen))
           \o Descending(cp, ks \ {top})
\* each root once
RECURSIVE DescendingOnce(_)
DescendingOnce(ks) ==
  IF ks = {} THEN <<>>
  ELSE LET top == CHOOSE k \in ks : \A w \in ks : w <= k
       IN  <<Frac(top, EnergyDen)>> \o DescendingOnce(ks \ {top})
EigvalsOfPolyDistinct(cp) == DescendingOnce(RootsOf(cp))
EigvalsOfPoly(cp) == Descending(cp, RootsOf(cp))
EigvalsDescending(Hm) == EigvalsOfPoly(CharPoly(SignsTimes(Hm)))
\* every eigenvalue is on the grid of the energies
SpectrumExact(Hm) == Len(EigvalsDescending(Hm)) = Dim(Hm)


(***************************************************************************)
(* get_energies as a whole                                                 *)
(***************************************************************************)
HamiltonianAt(st, cpls, Q4) ==
  Hamiltonian(st, FourierLoop(ZeroBlocks(st), cpls, Q4, 1),
                  Fourier0Loop(ZeroBlocks(st), cpls, 1))

\* what a call get_energies(Qvec) ends with: the exception raised, if any,
\* and the array returned otherwise
SolveFor(Hm) ==
  IF CholeskyOk(Hm)
  THEN [raised |-> "none", Es |-> EigvalsDescending(Hm)]
  ELSE [raised |-> "LinAlgError", Es |-> <<>>]
GetEnergies(st, cpls, Q4) ==
  CHOOSE r \in { SolveFor(Hm) : Hm \in {HamiltonianAt(st, cpls, Q4)} } : TRUE

\* the inputs whose energies the model holds exactly
Representable(st, cpls, Q4) ==
  LET Hm == HamiltonianAt(st, cpls, Q4)
  IN  CholeskyOk(Hm) => SpectrumExact(Hm)

(***************************************************************************)
(* The frames the other scripts write down instead of computing them       *)
(***************************************************************************)
\* fm.py: c = 1.; rot = np.diag([ c, c, c ])
FmRot == RDiag(R1)
\* fm.py: the only site, after its loop "for site in sites"
FmSite ==
  [S |-> R1, Sdir |-> <<0, 0, 1>>, u |-> FrameU(FmRot), v |-> FrameV(FmRot)]
\* examples/ferro.py: site_S, site_u, site_v; the order is along [001]
ExampleSite ==
  [S |-> R1, Sdir |-> <<0, 0, 1>>,
   u |-> <<Cx(R1, R0), Cx(R0, R1), C0>>, v |-> <<R0, R0, R1>>]

(***************************************************************************)
(* get_energies of examples/ferro.py: one site, one coupling               *)
(***************************************************************************)
\* phase = -1j * 2.*np.pi * np.dot(term_dist, Qvec)
\* J_fourier = J_real*np.exp(phase) + J_real.transpose()*np.exp(-phase)
ExamplesJFourier(cpl, Q4) ==
  LET n == DistDotQ4(cpl.dist, Q4)
  IN  CMatAdd(CMatScale(Phase(n), CMatOfReal(cpl.J_real)),
              CMatScale(Phase(-n), CMatOfReal(RMatTranspose(cpl.J_real))))
\* J0_fourier = J_real + J_real.transpose()
ExamplesJ0Fourier(cpl) ==
  CMatOfReal(RMatAdd(cpl.J_real, RMatTranspose(cpl.J_real)))

\* H00, HNN, H0N and the array H built of them
ExamplesH(site, Jf, J0) ==
  LET u   == site.u
      v   == CVecOfReal(site.v)
      hS  == RMul(<<1, 2>>, site.S)
      H00 == CSub(CScale(hS, Bilinear(u, Jf, CVecConj(u))),
                  CScale(site.S, Bilinear(v, J0, v)))
      HNN == CSub(CScale(hS, Bilinear(CVecConj(u), Jf, u)),
                  CScale(site.S, Bilinear(v, J0, v)))
      H0N == CScale(hS, Bilinear(u, Jf, u))
  IN  << <<H00, H0N>>, <<CConj(H0N), HNN>> >>

ExamplesHamiltonianAt(cpl, Q4) ==
  ExamplesH(ExampleSite, ExamplesJFourier(cpl, Q4), ExamplesJ0Fourier(cpl))

\* what a call get_energies(Qvec) of examples/ferro.py ends with
ExamplesGetEnergies(cpl, Q4) ==
  CHOOSE r \in { SolveFor(Hm) : Hm \in {ExamplesHamiltonianAt(cpl, Q4)} } : TRUE

ExamplesRepresentable(cpl, Q4) ==
  LET Hm == ExamplesHamiltonianAt(cpl, Q4)
  IN  CholeskyOk(Hm) => SpectrumExact(Hm)

(***************************************************************************)
(* Models and momentum transfers of the get_energies specification         *)
(***************************************************************************)
MaxCouplings == 2    \* couplings in a model

\* a Python list as a 0-based function
List0(seq) == [i \in 0..(Len(seq) - 1) |-> seq[i + 1]]
\* the module-level loops over sites and couplings, run to their end
Framed(st) == [i \in DOMAIN st |-> WithFrame(st[i])]
JRealed(cpls) == [k \in DOMAIN cpls |-> WithJReal(cpls[k])]

SiteConfigs ==
  { List0(<< [S |-> RInt(1), Sdir |-> <<0, 0, 1>>] >>),
    List0(<< [S |-> RInt(4), Sdir |-> <<3, 0, 4>>] >>),
    List0(<< [S |-> RInt(1), Sdir |-> <<0, 0, 1>>],
             [S |-> RInt(1), Sdir |-> <<0, 0, -1>>] >>),
    List0(<< [S |-> RInt(4), Sdir |-> <<3, 0, 4>>],
             [S |-> RInt(1), Sdir |-> <<1, 0, 0>>] >>) }

\* exchange, DMI vector and translation of a coupling
Interactions ==
  { [J |-> -1, DMI |-> <<0, 0, 0>>, dist |-> <<1, 0, 0>>],
    [J |-> 2, DMI |-> <<0, 0, 1>>, dist |-> <<0, 1, 0>>] }

\* the couplings of a model: on site 0 itself, from it and towards it
CouplingsOn(st) ==
  { [sites |-> p, J |-> x.J, DMI |-> x.DMI, dist |-> x.dist] :
      p \in { q \in (DOMAIN st) \X (DOMAIN st) : q[1] = 0 \/ q[2] = 0 },
      x \in Interactions }

CouplingLists(st) ==
  UNION { [1..n -> CouplingsOn(st)] : n \in 0..MaxCouplings }

\* 4 * Qvec
QValues == { <<1, 0, 0>>, <<2, 1, 0>> }

\* a call of get_energies of tests/ferro.py
InitTests ==
  /\ \E st \in SiteConfigs :
       /\ sites = Framed(st)
       /\ site_idx = NumSites(st)
       /\ rot = SpinRotation(st[NumSites(st) - 1].Sdir)
  /\ \E cpls \in CouplingLists(sites) : couplings = JRealed(cpls)
  /\ Qvec \in QValues
  /\ Representable(sites, couplings, Qvec)
  /\ ge_script = "tests"

\* a call of get_energies of examples/ferro.py, for the values the script
\* may give term_J, term_DMIx, term_DMIy, term_DMIz and term_dist
InitExamples ==
  /\ sites = List0(<< ExampleSite >>)
  /\ site_idx = 1
  /\ rot = RDiag(R1)
  /\ \E x \in Interactions :
       couplings = JRealed(<< [sites |-> <<0, 0>>, J |-> x.J, DMI |-> x.DMI,
                               dist |-> x.dist] >>)
  /\ Qvec \in QValues
  /\ ExamplesRepresentable(couplings[1], Qvec)
  /\ ge_script = "examples"

InitEnergies ==
  /\ InitTests \/ InitExamples
  /\ cpl_idx = 1
  /\ J_fourier = ZeroBlocks(sites)
  /\ J0_fourier = ZeroBlocks(sites)
  /\ H = <<>>
  /\ ge_pc = "fourier"
  /\ ge_Es = <<>>
  /\ ge_calls = <<>>
  /\ ScanIdle
  /\ PoolIdle
  /\ TakinIdle
  /\ CallIdle

\* both site indices of a coupling are accepted by J_fourier[site1, site2]
SitesIndexable(cpl, n) ==
  NpIndexOk(cpl.sites[1], n) /\ NpIndexOk(cpl.sites[2], n)

\* one pass of the loop "for coupling in couplings"
FourierStep ==
  /\ ge_script = "tests"
  /\ ge_pc = "fourier"
  /\ cpl_idx <= Len(couplings)
  /\ SitesIndexable(couplings[cpl_idx], NumSites(sites))
  /\ J_fourier' = FourierBody(J_fourier, couplings[cpl_idx], Qvec)
  /\ J0_fourier' = Fourier0Body(J0_fourier, couplings[cpl_idx])
  /\ cpl_idx' = cpl_idx + 1
  /\ UNCHANGED <<scanVars, poolVars, takinVars, callVars, ge_script>>
  /\ UNCHANGED <<frameVars, couplings, Qvec, H, ge_pc, ge_Es, ge_calls>>

\* the loops that fill H
BuildHamiltonian ==
  /\ ge_script = "tests"
  /\ ge_pc = "fourier"
  /\ cpl_idx > Len(couplings)
  /\ H' = Hamiltonian(sites, J_fourier, J0_fourier)
  /\ ge_pc' = "trafo"
  /\ UNCHANGED <<scanVars, poolVars, takinVars, callVars, ge_script>>
  /\ UNCHANGED <<frameVars, couplings, Qvec, cpl_idx, J_fourier, J0_fourier, ge_Es, ge_calls>>

\* C = la.cholesky(H), which may raise
Trafo ==
  /\ ge_pc = "trafo"
  /\ ge_pc' = IF CholeskyOk(H) THEN "eigvals" ELSE "LinAlgError"
  /\ UNCHANGED <<scanVars, poolVars, takinVars, callVars, ge_script>>
  /\ UNCHANGED <<frameVars, couplings, Qvec, cpl_idx, J_fourier, J0_fourier, H, ge_Es, ge_calls>>

\* Es = np.real(la.eigvals(H_trafo)); return Es
Eigvals ==
  /\ ge_pc = "eigvals"
  /\ ge_Es' = EigvalsDescending(H)
  /\ ge_pc' = "returned"
  /\ UNCHANGED <<scanVars, poolVars, takinVars, callVars, ge_script>>
  /\ UNCHANGED <<frameVars, couplings, Qvec, cpl_idx, J_fourier, J0_fourier, H, ge_calls>>

\* examples/ferro.py: the two assignments to J_fourier and J0_fourier
ExamplesFourier ==
  /\ ge_script = "examples"
  /\ ge_pc = "fourier"
  /\ cpl_idx = 1
  /\ J_fourier' = << << ExamplesJFourier(couplings[1], Qvec) >> >>
  /\ J0_fourier' = << << ExamplesJ0Fourier(couplings[1]) >> >>
  /\ cpl_idx' = 2
  /\ UNCHANGED <<scanVars, poolVars, takinVars, callVars, ge_script>>
  /\ UNCHANGED <<frameVars, couplings, Qvec, H, ge_pc, ge_Es, ge_calls>>

\* examples/ferro.py: H00, HNN, H0N and H
ExamplesHamilton ==
  /\ ge_script = "examples"
  /\ ge_pc = "fourier"
  /\ cpl_idx = 2
  /\ H' = ExamplesH(sites[0], At(J_fourier, 0, 0), At(J0_fourier, 0, 0))
  /\ ge_pc' = "trafo"
  /\ UNCHANGED <<scanVars, poolVars, takinVars, callVars, ge_script>>
  /\ UNCHANGED <<frameVars, couplings, Qvec, cpl_idx, J_fourier, J0_fourier, ge_Es, ge_calls>>

\* a pass of the loop whose first statement, J_fourier[site1, site2] += J_ft,
\* raises IndexError: nothing is accumulated and get_energies is left
FourierIndexError ==
  /\ ge_script = "tests"
  /\ ge_pc = "fourier"
  /\ cpl_idx <= Len(couplings)
  /\ ~SitesIndexable(couplings[cpl_idx], NumSites(sites))
  /\ ge_pc' = "IndexError"
  /\ UNCHANGED <<scanVars, poolVars, takinVars, callVars, ge_script>>
  /\ UNCHANGED <<frameVars, couplings, Qvec, cpl_idx, J_fourier, J0_fourier, H, ge_Es, ge_calls>>

NextEnergies ==
  \/ FourierStep
  \/ BuildHamiltonian
  \/ ExamplesFourier
  \/ ExamplesHamilton
  \/ Trafo
  \/ Eigvals
SpecEnergies == InitEnergies /\ [][NextEnergies]_vars

\* get_energies of tests/ferro.py on a couplings list whose "sites" entries
\* are any integers near the range of the site list
MaxSiteIndexExcess == 1   \* how far beyond [-N, N) an index may lie
AnyIndices(st) ==
  (-NumSites(st) - MaxSiteIndexExcess)..(NumSites(st) - 1 + MaxSiteIndexExcess)
AnyCouplingsOn(st) ==
  { [sites |-> p, J |-> x.J, DMI |-> x.DMI, dist |-> x.dist] :
      p \in { q \in AnyIndices(st) \X AnyIndices(st) : q[1] = 0 \/ q[2] = 0 },
      x \in Interactions }
AnyCouplingLists(st) ==
  UNION { [1..n -> AnyCouplingsOn(st)] : n \in 0..MaxCouplings }
AllIndexable(st, cpls) ==
  \A k \in DOMAIN cpls : SitesIndexable(cpls[k], NumSites(st))

InitEnergiesAny ==
  /\ \E st \in SiteConfigs :
       /\ sites = Framed(st)
       /\ site_idx = NumSites(st)
       /\ rot = SpinRotation(st[NumSites(st) - 1].Sdir)
  /\ \E cpls \in AnyCouplingLists(sites) : couplings = JRealed(cpls)
  /\ Qvec \in QValues
  /\ AllIndexable(sites, couplings) => Representable(sites, couplings, Qvec)
  /\ ge_script = "tests"
  /\ cpl_idx = 1
  /\ J_fourier = ZeroBlocks(sites)
  /\ J0_fourier = ZeroBlocks(sites)
  /\ H = <<>>
  /\ ge_pc = "fourier"
  /\ ge_Es = <<>>
  /\ ge_calls = <<>>
  /\ ScanIdle
  /\ PoolIdle
  /\ TakinIdle
  /\ CallIdle

NextEnergiesAny ==
  \/ FourierStep
  \/ FourierIndexError
  \/ BuildHamiltonian
  \/ Trafo
  \/ Eigvals
SpecEnergiesAny == InitEnergiesAny /\ [][NextEnergiesAny]_vars

(***************************************************************************)
(* The dispersion scans of tests/ferro.py and examples/ferro.py:           *)
(* "for h in np.linspace(-1, 1, n)" with try / except la.LinAlgError       *)
(***************************************************************************)
MaxScanPoints == 9   \* points of np.linspace

\* the numbers of points whose np.linspace(-1, 1, n) stays on quarters
ScanNums == { n \in 2..MaxScanPoints : 8 % (n - 1) = 0 }
\* 4 * np.linspace(-1, 1, n)[k]
Linspace4(n, k) == -4 + (8 * k) \div (n - 1)

ScanScripts == {"tests_ferro", "tests_afm", "examples"}

\* the sites and couplings the scripts define
TestsFerroSites == List0(<< [S |-> RInt(1), Sdir |-> <<0, 0, 1>>] >>)
TestsAfmSites ==
  List0(<< [S |-> RInt(1), Sdir |-> <<0, 0, 1>>],
           [S |-> RInt(1), Sdir |-> <<0, 0, -1>>] >>)
TestsFerroCouplings ==
  << [sites |-> <<0, 0>>, J |-> -1, DMI |-> <<0, 0, 0>>, dist |-> <<1, 0, 0>>] >>
TestsAfmCouplings ==
  << [sites |-> <<0, 1>>, J |-> 1, DMI |-> <<0, 0, 0>>, dist |-> <<0, 0, 0>>],
     [sites |-> <<1, 0>>, J |-> 1, DMI |-> <<0, 0, 0>>, dist |-> <<2, 0, 0>>] >>
\* examples/ferro.py: term_J, term_DMIx, term_DMIy, term_DMIz, term_dist
ExamplesCoupling ==
  [sites |-> <<0, 0>>, J |-> -1, DMI |-> <<0, 0, 0>>, dist |-> <<1, 0, 0>>]

ScanSites(script) ==
  IF script = "tests_ferro" THEN Framed(TestsFerroSites)
  ELSE IF script = "tests_afm" THEN Framed(TestsAfmSites)
  ELSE List0(<< ExampleSite >>)
ScanCouplings(script) ==
  IF script = "tests_ferro" THEN JRealed(TestsFerroCouplings)
  ELSE IF script = "tests_afm" THEN JRealed(TestsAfmCouplings)
  ELSE JRealed(<< ExamplesCoupling >>)

\* get_energies(Qvec) as the running script defines it
ScanGetEnergies(script, st, cpls, Q4) ==
  IF script = "examples" THEN ExamplesGetEnergies(cpls[1], Q4)
  ELSE GetEnergies(st, cpls, Q4)

\* tests/ferro.py, the loop "for E in get_energies(Qvec)": the energies
\* that reach Es.append
RECURSIVE KeptEnergies(_, _)
KeptEnergies(energies, only_pos_E) ==
  IF energies = <<>> THEN <<>>
  ELSE IF only_pos_E /\ RLess(Head(energies), R0)
  THEN KeptEnergies(Tail(energies), only_pos_E)
  ELSE <<Head(energies)>> \o KeptEnergies(Tail(energies), only_pos_E)
\* and the values hs.append gets with them
Repeated(h, n) == [i \in 1..n |-> h]

\* the loop goes on with the next h after "except la.LinAlgError: pass"
AfterPointAbort(k, n, raised) == IF raised = "none" THEN k + 1 ELSE n
AfterPoint(k, n, raised) == k + 1

InitScan ==
  /\ scan_script \in ScanScripts
  /\ scan_only_pos \in BOOLEAN
  /\ scan_script = "examples" => scan_only_pos = FALSE
  /\ scan_num \in ScanNums
  /\ scan_k = 0
  /\ hs = <<>>
  /\ Es = <<>>
  /\ ge_log = <<>>
  /\ sites = ScanSites(scan_script)
  /\ site_idx = NumSites(sites)
  /\ rot = IF scan_script = "tests_afm" THEN SpinRotation(<<0, 0, -1>>)
           ELSE RDiag(R1)
  /\ couplings = ScanCouplings(scan_script)
  /\ Qvec = <<0, 0, 0>>
  /\ cpl_idx = 1
  /\ J_fourier = <<>>
  /\ J0_fourier = <<>>
  /\ H = <<>>
  /\ ge_pc = "idle"
  /\ ge_Es = <<>>
  /\ ge_calls = <<>>
  /\ ge_script = IF scan_script = "examples" THEN "examples" ELSE "tests"
  /\ PoolIdle
  /\ TakinIdle
  /\ CallIdle

\* one pass of the loop over h: the try block and its except clause
ScanPoint ==
  /\ scan_script \in ScanScripts
  /\ scan_k < scan_num
  /\ \E h \in {Linspace4(scan_num, scan_k)} :
     \E r \in {ScanGetEnergies(scan_script, sites, couplings, <<h, 0, 0>>)} :
     \E kept \in {KeptEnergies(r.Es, scan_only_pos)} :
         /\ Qvec' = <<h, 0, 0>>
         /\ ge_log' = Append(ge_log, <<h, 0, 0>>)
         /\ IF r.raised = "LinAlgError"
            THEN UNCHANGED <<hs, Es>>
            ELSE IF scan_script = "examples"
            THEN /\ Es' = Append(Es, r.Es)
                 /\ hs' = Append(hs, h)
            ELSE /\ hs' = hs \o Repeated(h, Len(kept))
                 /\ Es' = Es \o kept
         /\ scan_k' = AfterPoint(scan_k, scan_num, r.raised)
  /\ UNCHANGED <<scan_script, scan_only_pos, scan_num>>
  /\ UNCHANGED <<frameVars, couplings, cpl_idx, J_fourier, J0_fourier, H,
                 ge_pc, ge_Es, ge_calls, ge_script, poolVars, takinVars, callVars>>

NextScan == ScanPoint
SpecScan == InitScan /\ [][NextScan]_vars

(***************************************************************************)
(* The Takin interface of fm.py: TakinDisp and TakinSqw                    *)
(***************************************************************************)
MaxTakinH4 == 8      \* |4 * h| of a call

\* fm.py: coupling["J_real"] = np.diag([ J, J, J ])
FmJReal(J) == RDiag(RInt(J))
\* fm.py: the list couplings after the loop "for coupling in couplings"
FmCouplings ==
  << [sites |-> <<0, 0>>, J |-> -1, dist |-> <<1, 0, 0>>,
      J_real |-> FmJReal(-1)] >>
FmSites == List0(<< FmSite >>)

\* g_bose_cut, in hundredths of a meV
g_bose_cut == 1
\* the energies E of a TakinSqw call, in hundredths of a meV
TakinEnergies == {0, 1, 100}

\* bose_cutoff: the energy it hands to bose
BoseCutoffArg(E, Ecut) ==
  IF Abs(E) < Abs(Ecut)
  THEN (IF E > 0 THEN 1 ELSE IF E < 0 THEN -1 ELSE 0) * Abs(Ecut)
  ELSE E
\* bose: 1./(m.exp(abs(E)/(kB*T)) - 1.) divides by zero when E is zero
BoseRaises(E) == E = 0

\* how a call TakinDisp(h, k, l) ends: only ZeroDivisionError is caught
TakinDispResult(st, cpls, Q4) ==
  CHOOSE out \in
    { IF r.raised = "ZeroDivisionError"
      THEN [raised |-> "none", value |-> <<R0, R0>>]
      ELSE IF r.raised # "none"
      THEN [raised |-> r.raised, value |-> <<>>]
      ELSE [raised |-> "none",
            value |-> <<r.Es, Repeated(R1, Len(r.Es))>>] :
      r \in {GetEnergies(st, cpls, Q4)} } : TRUE

\* how a call TakinSqw(h, k, l, E) ends: the value returned is the sum of
\* the peaks at E_peaks times the Bose factor plus the incoherent peak
TakinSqwResult(st, cpls, Q4, E) ==
  CHOOSE out \in
    { IF d.raised = "ZeroDivisionError"
      THEN [raised |-> "none", value |-> R0]
      ELSE IF d.raised # "none"
      THEN [raised |-> d.raised, value |-> <<>>]
      ELSE IF BoseRaises(BoseCutoffArg(E, g_bose_cut))
      THEN [raised |-> "none", value |-> R0]
      ELSE [raised |-> "none",
            value |-> [peaks |-> d.value[1], weights |-> d.value[2],
                       at |-> E]] :
      d \in {TakinDispResult(st, cpls, Q4)} } : TRUE

TakinMomenta ==
  { <<h, k, l>> : h \in (-MaxTakinH4)..MaxTakinH4, k \in {0, 2}, l \in {0, 2} }

InitTakin ==
  /\ takin_fn \in {"TakinDisp", "TakinSqw"}
  /\ \E Q \in TakinMomenta, E \in TakinEnergies :
       /\ takin_fn = "TakinDisp" => E = 0
       /\ takin_args = [Q |-> Q, E |-> E]
  /\ takin_pc = "called"
  /\ takin_out = <<>>
  /\ sites = FmSites
  /\ site_idx = 1
  /\ rot = FmRot
  /\ couplings = FmCouplings
  /\ Qvec = <<0, 0, 0>>
  /\ cpl_idx = 1
  /\ J_fourier = <<>>
  /\ J0_fourier = <<>>
  /\ H = <<>>
  /\ ge_pc = "idle"
  /\ ge_Es = <<>>
  /\ ge_calls = <<>>
  /\ ge_script = "tests"
  /\ ScanIdle
  /\ PoolIdle
  /\ CallIdle

TakinDisp ==
  /\ takin_fn = "TakinDisp"
  /\ takin_pc = "called"
  /\ takin_out' = TakinDispResult(sites, couplings, takin_args.Q)
  /\ takin_pc' = "done"
  /\ UNCHANGED <<takin_fn, takin_args, frameVars, geVars, scanVars, poolVars, callVars>>

TakinSqw ==
  /\ takin_fn = "TakinSqw"
  /\ takin_pc = "called"
  /\ takin_out' = TakinSqwResult(sites, couplings, takin_args.Q, takin_args.E)
  /\ takin_pc' = "done"
  /\ UNCHANGED <<takin_fn, takin_args, frameVars, geVars, scanVars, poolVars, callVars>>

NextTakin == TakinDisp \/ TakinSqw
SpecTakin == InitTakin /\ [][NextTakin]_vars

(***************************************************************************)
(* The pooled scans of calc_dispersion.py (calc_disp), load_model.py and   *)
(* calc3.py: one branch, tasks submitted to an executor and collected      *)
(***************************************************************************)
MaxPoolPoints == 3   \* num_Q_points
max_procs == 2       \* workers of the executor

PoolScripts == {"calc_dispersion", "load_model", "calc3"}

\* options of the three scripts
only_positive_energies == TRUE
S_scale == 64
S_clamp_min == 1
S_clamp_max == 500
S_filter_min == -1

\* mag.CalcEnergies(h, k, l, False) of the magdyn module: some list of
\* energies with their weights
CalcEnergiesResults ==
  { <<>>,
    << [E |-> 1, weight |-> 1] >>,
    << [E |-> -1, weight |-> 0], [E |-> 2, weight |-> 10] >> }

\* calc_Es: the tuples (h, k, l, E, weight) of one Q point; a point of the
\* branch is named by its position in numpy.linspace(hkl_start, hkl_end, n)
RECURSIVE ResultsOfFirst(_)
ResultsOfFirst(n) ==
  IF n = 0 THEN <<>> ELSE ResultsOfFirst(n - 1) \o pool_futures[n].result
CalcEsShared(q, Es_dicts) ==
  ResultsOfFirst(Len(pool_futures))
  \o [i \in 1..Len(Es_dicts) |->
       [h |-> q, E |-> Es_dicts[i].E, weight |-> Es_dicts[i].weight]]
CalcEs(q, Es_dicts) ==
  [i \in 1..Len(Es_dicts) |->
     [h |-> q, E |-> Es_dicts[i].E, weight |-> Es_dicts[i].weight]]

\* the option values as the files set them
FileOptions ==
  [S_scale |-> S_scale, S_filter_min |-> S_filter_min,
   S_clamp_min |-> S_clamp_min, S_clamp_max |-> S_clamp_max]

\* "if weight < S_clamp_min: ... elif weight > S_clamp_max: ..."
ClampedTo(weight, opt) ==
  IF weight < opt.S_clamp_min THEN opt.S_clamp_min
  ELSE IF weight > opt.S_clamp_max THEN opt.S_clamp_max
  ELSE weight
Clamped(weight) == ClampedTo(weight, FileOptions)

\* append_data of calc_dispersion.py and load_model.py, and the inline
\* statements of calc3.py: the data points one tuple adds, under the option
\* values opt
AppendDataWith(opt, script, t) ==
  LET weight == t.weight * opt.S_scale
  IN  IF script = "calc3"
      THEN IF weight > opt.S_filter_min
           THEN << [h |-> t.h, E |-> t.E, S |-> ClampedTo(weight, opt)] >>
           ELSE <<>>
      ELSE IF weight < opt.S_filter_min
           THEN <<>>
           ELSE << [h |-> t.h, E |-> t.E, S |-> ClampedTo(weight, opt)] >>
AppendData(script, t) == AppendDataWith(FileOptions, script, t)

\* the loop "for (h, k, l, E, weight) in Es_future.result()"
RECURSIVE CollectedAll(_, _)
CollectedAll(script, tuples) ==
  IF tuples = <<>> THEN <<>>
  ELSE AppendData(script, Head(tuples)) \o CollectedAll(script, Tail(tuples))
RECURSIVE CollectedWith(_, _, _)
CollectedWith(only_pos, script, tuples) ==
  IF tuples = <<>> THEN <<>>
  ELSE IF only_pos /\ Head(tuples).E < 0
  THEN CollectedWith(only_pos, script, Tail(tuples))
  ELSE AppendData(script, Head(tuples))
       \o CollectedWith(only_pos, script, Tail(tuples))
Collected(script, tuples) ==
  CollectedWith(only_positive_energies, script, tuples)

\* the future the loop "for Es_future in Es_futures" takes next
NextFutureAsCompleted(futures, order, collected) ==
  IF Len(order) > Len(collected) THEN order[Len(collected) + 1] ELSE 0
NextFuture(futures, order, collected) == Len(collected) + 1

NumRunning(futures) ==
  Cardinality({ i \in DOMAIN futures : futures[i].state = "running" })

InitPool ==
  /\ pool_script \in PoolScripts
  /\ pool_num \in 2..MaxPoolPoints
  /\ pool_pc = "submit"
  /\ pool_futures = <<>>
  /\ pool_order = <<>>
  /\ pool_collected = <<>>
  /\ data = <<>>
  /\ mag_results = <<>>
  /\ pool_print_progress = FALSE
  /\ pool_reports = <<>>
  /\ sites = <<>>
  /\ site_idx = 0
  /\ rot = RDiag(R0)
  /\ EnergiesIdle
  /\ ScanIdle
  /\ TakinIdle
  /\ CallIdle

\* Es_futures.append(exe.submit(calc_Es, hkl[0], hkl[1], hkl[2]))
Submit ==
  /\ pool_pc = "submit"
  /\ pool_futures' =
       Append(pool_futures,
              [q |-> Len(pool_futures), state |-> "pending", result |-> <<>>])
  /\ pool_pc' = IF Len(pool_futures) + 1 < pool_num THEN "submit"
                ELSE IF pool_print_progress THEN "progress"
                ELSE "collect"
  /\ UNCHANGED <<pool_script, pool_num, pool_order, pool_collected, data>>
  /\ UNCHANGED <<mag_results, pool_print_progress, pool_reports>>
  /\ UNCHANGED <<frameVars, geVars, scanVars, takinVars, callVars>>

\* a free worker takes the task that has waited longest
WorkerStart ==
  /\ pool_pc \in {"submit", "progress", "collect"}
  /\ NumRunning(pool_futures) < max_procs
  /\ \E i \in DOMAIN pool_futures :
       /\ pool_futures[i].state = "pending"
       /\ \A j \in 1..(i - 1) : pool_futures[j].state # "pending"
       /\ pool_futures' = [pool_futures EXCEPT ![i].state = "running"]
  /\ UNCHANGED <<pool_script, pool_num, pool_pc, pool_order, pool_collected, data>>
  /\ UNCHANGED <<mag_results, pool_print_progress, pool_reports>>
  /\ UNCHANGED <<frameVars, geVars, scanVars, takinVars, callVars>>

\* a worker returns from calc_Es
WorkerFinish ==
  /\ pool_pc \in {"submit", "progress", "collect"}
  /\ \E i \in DOMAIN pool_futures, Es_dicts \in CalcEnergiesResults :
       /\ pool_futures[i].state = "running"
       /\ pool_futures' =
            [pool_futures EXCEPT
               ![i].state = "done",
               ![i].result = CalcEs(pool_futures[i].q, Es_dicts)]
       /\ pool_order' = Append(pool_order, i)
       /\ mag_results' = mag_results @@ (pool_futures[i].q :> Es_dicts)
  /\ UNCHANGED <<pool_script, pool_num, pool_pc, pool_collected, data>>
  /\ UNCHANGED <<pool_print_progress, pool_reports>>
  /\ UNCHANGED <<frameVars, geVars, scanVars, takinVars, callVars>>

\* one pass of the loop "for Es_future in Es_futures": Es_future.result()
\* waits for the task, then its tuples are filtered and appended
Collect ==
  /\ pool_pc = "collect"
  /\ \E i \in {NextFuture(pool_futures, pool_order, pool_collected)} :
       /\ i \in DOMAIN pool_futures
       /\ pool_futures[i].state = "done"
       /\ data' = data \o Collected(pool_script, pool_futures[i].result)
       /\ pool_collected' = Append(pool_collected, i)
  /\ pool_pc' = IF Len(pool_collected) + 1 = pool_num THEN "done" ELSE "collect"
  /\ UNCHANGED <<pool_script, pool_num, pool_futures, pool_order>>
  /\ UNCHANGED <<mag_results, pool_print_progress, pool_reports>>
  /\ UNCHANGED <<frameVars, geVars, scanVars, takinVars, callVars>>

NextPool == Submit \/ WorkerStart \/ WorkerFinish \/ Collect
SpecPool == InitPool /\ [][NextPool]_vars

(***************************************************************************)
(* The same scan without the pool: use_procpool = False in                 *)
(* calc_dispersion.py, use_threadpool = False in load_model.py             *)
(***************************************************************************)
\* the loop "for S in mag.CalcEnergies(hkl[0], hkl[1], hkl[2], False)" of
\* the serial path: the data points one Q point adds
RECURSIVE SerialBody(_, _, _)
SerialBody(script, q, Es_dicts) ==
  IF Es_dicts = <<>> THEN <<>>
  ELSE IF only_positive_energies /\ Head(Es_dicts).E < 0
  THEN SerialBody(script, q, Tail(Es_dicts))
  ELSE AppendData(script, [h |-> q, E |-> Head(Es_dicts).E,
                           weight |-> Head(Es_dicts).weight])
       \o SerialBody(script, q, Tail(Es_dicts))

\* the scripts that have both paths
SerialScripts == {"calc_dispersion", "load_model"}

\* a run of a script on either path
InitPaths ==
  /\ pool_script \in SerialScripts
  /\ pool_num \in 2..MaxPoolPoints
  /\ pool_pc \in {"submit", "serial"}
  /\ pool_futures = <<>>
  /\ pool_order = <<>>
  /\ pool_collected = <<>>
  /\ data = <<>>
  /\ mag_results = <<>>
  /\ pool_print_progress = FALSE
  /\ pool_reports = <<>>
  /\ sites = <<>>
  /\ site_idx = 0
  /\ rot = RDiag(R0)
  /\ EnergiesIdle
  /\ ScanIdle
  /\ TakinIdle
  /\ CallIdle

\* one pass of the loop "for hkl in numpy.linspace(...)" of the serial path
SerialPoint ==
  /\ pool_pc = "serial"
  /\ \E Es_dicts \in CalcEnergiesResults :
       LET q == Len(pool_collected)
       IN  /\ mag_results' = mag_results @@ (q :> Es_dicts)
           /\ data' = data \o SerialBody(pool_script, q, Es_dicts)
           /\ pool_collected' = Append(pool_collected, q + 1)
  /\ pool_pc' = IF Len(pool_collected) + 1 = pool_num THEN "done" ELSE "serial"
  /\ UNCHANGED <<pool_script, pool_num, pool_futures, pool_order>>
  /\ UNCHANGED <<pool_print_progress, pool_reports>>
  /\ UNCHANGED <<frameVars, geVars, scanVars, takinVars, callVars>>

NextPaths == NextPool \/ SerialPoint
SpecPaths == InitPaths /\ [][NextPaths]_vars

\* no model has been set up and nothing else is running
NoModel ==
  /\ sites = <<>>
  /\ site_idx = 0
  /\ rot = RDiag(R0)
  /\ EnergiesIdle
  /\ ScanIdle
  /\ PoolIdle
  /\ TakinIdle

(***************************************************************************)
(* The pooled scan of calc_dispersion.py with the progress loop             *)
(* ("while print_progress") and with tasks that may end with an exception   *)
(***************************************************************************)
\* len([future for future in Es_futures if future.done()])
NumFinished(futures) ==
  Cardinality({ i \in DOMAIN futures :
                  futures[i].state \in {"done", "failed"} })

\* last_num_finished
LastNumFinished(reports) ==
  IF reports = <<>> THEN -1 ELSE reports[Len(reports)]

\* "if num_futures == num_finished: break"
LoopDoneEarly(num_futures, num_finished) == num_finished > 0
LoopDone(num_futures, num_finished) == num_futures = num_finished

InitProgress ==
  /\ pool_script = "calc_dispersion"
  /\ pool_num \in 2..MaxPoolPoints
  /\ pool_pc = "submit"
  /\ pool_futures = <<>>
  /\ pool_order = <<>>
  /\ pool_collected = <<>>
  /\ data = <<>>
  /\ mag_results = <<>>
  /\ pool_print_progress = TRUE
  /\ pool_reports = <<>>
  /\ sites = <<>>
  /\ site_idx = 0
  /\ rot = RDiag(R0)
  /\ EnergiesIdle
  /\ ScanIdle
  /\ TakinIdle
  /\ CallIdle

\* a worker leaves calc_Es with an exception
WorkerRaise ==
  /\ pool_pc \in {"submit", "progress", "collect"}
  /\ \E i \in DOMAIN pool_futures :
       /\ pool_futures[i].state = "running"
       /\ pool_futures' = [pool_futures EXCEPT ![i].state = "failed"]
       /\ pool_order' = Append(pool_order, i)
  /\ UNCHANGED <<pool_script, pool_num, pool_pc, pool_collected, data>>
  /\ UNCHANGED <<mag_results, pool_print_progress, pool_reports>>
  /\ UNCHANGED <<frameVars, geVars, scanVars, takinVars, callVars>>

\* one pass of the loop "while print_progress"
ProgressPoll ==
  /\ pool_pc = "progress"
  /\ LET num_futures == Len(pool_futures)
         num_finished == NumFinished(pool_futures)
     IN  /\ pool_reports' =
              IF LastNumFinished(pool_reports) # num_finished
              THEN Append(pool_reports, num_finished)
              ELSE pool_reports
         /\ pool_pc' = IF LoopDone(num_futures, num_finished)
                       THEN "collect" ELSE "progress"
  /\ UNCHANGED <<pool_script, pool_num, pool_futures, pool_order>>
  /\ UNCHANGED <<pool_collected, data, mag_results, pool_print_progress>>
  /\ UNCHANGED <<frameVars, geVars, scanVars, takinVars, callVars>>

\* Es_future.result() of a task that ended with an exception raises it
CollectRaise ==
  /\ pool_pc = "collect"
  /\ \E i \in {NextFuture(pool_futures, pool_order, pool_collected)} :
       /\ i \in DOMAIN pool_futures
       /\ pool_futures[i].state = "failed"
  /\ pool_pc' = "raised"
  /\ UNCHANGED <<pool_script, pool_num, pool_futures, pool_order>>
  /\ UNCHANGED <<pool_collected, data>>
  /\ UNCHANGED <<mag_results, pool_print_progress, pool_reports>>
  /\ UNCHANGED <<frameVars, geVars, scanVars, takinVars, callVars>>

NextProgress ==
  \/ Submit
  \/ WorkerStart
  \/ WorkerFinish
  \/ WorkerRaise
  \/ ProgressPoll
  \/ Collect
  \/ CollectRaise

\* the executor starts a waiting task when a worker is free, every started
\* task ends, and the main thread goes on
SpecProgress ==
  /\ InitProgress
  /\ [][NextProgress]_vars
  /\ WF_vars(Submit)
  /\ WF_vars(WorkerStart)
  /\ WF_vars(WorkerFinish \/ WorkerRaise)
  /\ WF_vars(ProgressPoll)
  /\ WF_vars(Collect \/ CollectRaise)

(***************************************************************************)
(* One model, a site with its spin along +z and a coupling of the site     *)
(* with itself, handed to get_energies of examples/ferro.py, of            *)
(* tests/ferro.py and of fm.py                                             *)
(***************************************************************************)
SameJ == {-2, -1, 1}
SameS == { <<1, 2>>, R1, RInt(2) }
SameDists == { <<1, 0, 0>>, <<0, 1, 0>>, <<1, 1, 0>>, <<2, 0, 1>> }
SameQ == { <<0, 0, 0>>, <<1, 0, 0>>, <<2, 1, 0>>, <<-1, 2, 0>>, <<4, 0, 0>> }

\* the site and the coupling as each script holds them
ExamplesSiteOf(a) == [ExampleSite EXCEPT !.S = a.S]
TestsSitesOf(a) == Framed(List0(<< [S |-> a.S, Sdir |-> <<0, 0, 1>>] >>))
FmSitesOf(a) == List0(<< [FmSite EXCEPT !.S = a.S] >>)
TestsCouplingsOf(a) ==
  JRealed(<< [sites |-> <<0, 0>>, J |-> a.J, DMI |-> <<0, 0, 0>>,
              dist |-> a.dist] >>)
FmCouplingsOf(a) ==
  << [sites |-> <<0, 0>>, J |-> a.J, dist |-> a.dist,
      J_real |-> FmJReal(a.J)] >>

\* the array H of each script and what its get_energies(Qvec) ends with
ExamplesRun(a) ==
  CHOOSE r \in { [H |-> Hm, r |-> SolveFor(Hm)] :
                 Hm \in { ExamplesH(ExamplesSiteOf(a),
                                    ExamplesJFourier(TestsCouplingsOf(a)[1], a.Q),
                                    ExamplesJ0Fourier(TestsCouplingsOf(a)[1])) } } :
    TRUE
TestsRun(a) ==
  CHOOSE r \in { [H |-> Hm, r |-> SolveFor(Hm)] :
                 Hm \in { HamiltonianAt(TestsSitesOf(a), TestsCouplingsOf(a),
                                        a.Q) } } :
    TRUE
FmRun(a) ==
  CHOOSE r \in { [H |-> Hm, r |-> SolveFor(Hm)] :
                 Hm \in { HamiltonianAt(FmSitesOf(a), FmCouplingsOf(a), a.Q) } } :
    TRUE

InitSame ==
  /\ call_fn = "get_energies"
  /\ call_args \in [J : SameJ, S : SameS, dist : SameDists, Q : SameQ]
  /\ Representable(TestsSitesOf(call_args), TestsCouplingsOf(call_args),
                   call_args.Q)
  /\ call_pc = "start"
  /\ call_out = <<>>
  /\ NoModel

GetEnergiesOfAll ==
  /\ call_fn = "get_energies"
  /\ call_pc = "start"
  /\ \E of_examples \in {ExamplesRun(call_args)},
        of_tests \in {TestsRun(call_args)},
        of_fm \in {FmRun(call_args)} :
       call_out' = [examples |-> of_examples, tests |-> of_tests,
                    fm |-> of_fm]
  /\ call_pc' = "done"
  /\ UNCHANGED <<call_fn, call_args>>
  /\ UNCHANGED <<frameVars, geVars, scanVars, poolVars, takinVars>>

NextSame == GetEnergiesOfAll
SpecSame == InitSame /\ [][NextSame]_vars

(***************************************************************************)
(* TakinDisp of fm.py with both ways its try block can end: get_energies   *)
(* returns or raises LinAlgError, or the block raises ZeroDivisionError,   *)
(* the exception the function catches.  Python values carry their type.    *)
(***************************************************************************)
PyFloat(x) == [type |-> "float", value |-> x]
PyList(items) == [type |-> "list", items |-> items]

\* the try block of TakinDisp: what get_energies(Q) ends with, or the
\* exception that is raised in its place
TryBlock(st, cpls, Q4, raises) ==
  IF raises = "none" THEN GetEnergies(st, cpls, Q4)
  ELSE [raised |-> raises, Es |-> <<>>]

\* the statements after the try block and the except clause
TakinDispReturn(r) ==
  IF r.raised = "ZeroDivisionError"
  THEN [raised |-> "none", value |-> << PyFloat(R0), PyFloat(R0) >>]
  ELSE IF r.raised # "none"
  THEN [raised |-> r.raised, value |-> <<>>]
  ELSE [raised |-> "none",
        value |-> << PyList(r.Es), PyList(Repeated(R1, Len(r.Es))) >>]

InitDisp ==
  /\ call_fn = "TakinDisp"
  /\ call_args \in [Q : TakinMomenta, raises : {"none", "ZeroDivisionError"}]
  /\ call_pc = "start"
  /\ call_out = <<>>
  /\ NoModel

TakinDispCall ==
  /\ call_fn = "TakinDisp"
  /\ call_pc = "start"
  /\ \E r \in {TryBlock(FmSites, FmCouplings, call_args.Q, call_args.raises)} :
       call_out' = TakinDispReturn(r)
  /\ call_pc' = "done"
  /\ UNCHANGED <<call_fn, call_args>>
  /\ UNCHANGED <<frameVars, geVars, scanVars, poolVars, takinVars>>

NextDisp == TakinDispCall
SpecDisp == InitDisp /\ [][NextDisp]_vars

(***************************************************************************)
(* calc.py: the scattering triangle after the command line was processed.  *)
(* Angles are held by their cosine; energies are in units of hbar^2/(2 m). *)
(***************************************************************************)
None == <<>>

\* the functions of the module helpers
get_E(ki, kf) == RSub(RMul(ki, ki), RMul(kf, kf))
get_ki(E, kf) == RSqrt(RAdd(RMul(kf, kf), E))
get_Q(ki, kf, twotheta) ==
  RSqrt(RSub(RAdd(RMul(ki, ki), RMul(kf, kf)),
             RMul(RInt(2), RMul(RMul(ki, kf), twotheta))))
get_scattering_angle(ki, kf, Q) ==
  LET c == RDiv(RSub(RAdd(RMul(ki, ki), RMul(kf, kf)), RMul(Q, Q)),
                RMul(RInt(2), RMul(ki, kf)))
  IN  IF RLess(R1, RAbs(c)) THEN NaN ELSE c

\* params as the file sets it: "ki", "kf", "E", "Q"
DefaultParams ==
  [ki |-> <<7, 5>>, kf |-> <<7, 5>>, E |-> get_E(<<7, 5>>, <<7, 5>>),
   Q |-> <<1777, 1000>>, twotheta |-> None]

\* the values the options --ki, --kf, -E, -Q and --twotheta may have
AnyKi == {None, R1, RInt(2), RInt(3)}
AnyKf == {None, R1, RInt(2)}
AnyE == {None, R0, <<29, 100>>, RInt(3), RInt(5), RInt(-3)}
AnyQ == {None, R1, RInt(2)}
AnyTwotheta == {None, <<1, 2>>, R0, RInt(-1)}

\* the statements "if parsedargs.ki != None:" to the end of "set
\* instrument position", in their order
ProcessArgs(a, p) ==
  LET ki1 == IF a.ki # None THEN a.ki ELSE p.ki
      kf1 == IF a.kf # None THEN a.kf ELSE p.kf
      Q1  == IF a.Q # None THEN a.Q ELSE p.Q
      tt  == IF a.twotheta # None THEN a.twotheta
             ELSE get_scattering_angle(ki1, kf1, Q1)
      Q2  == IF a.twotheta # None THEN get_Q(ki1, kf1, tt) ELSE Q1
      E   == IF a.E # None THEN a.E ELSE get_E(ki1, kf1)
      ki2 == IF a.E # None THEN get_ki(E, kf1) ELSE ki1
  IN  [ki |-> ki2, kf |-> kf1, E |-> E, Q |-> Q2, twotheta |-> tt]

\* the square roots the processing takes are exact
ArgsExact(a, p) ==
  LET ki1 == IF a.ki # None THEN a.ki ELSE p.ki
      kf1 == IF a.kf # None THEN a.kf ELSE p.kf
      Q2sq == RSub(RAdd(RMul(ki1, ki1), RMul(kf1, kf1)),
                   RMul(RInt(2), RMul(RMul(ki1, kf1), a.twotheta)))
      kisq == RAdd(RMul(kf1, kf1), a.E)
  IN  /\ a.twotheta # None => (RLess(R0, Q2sq) /\ RIsSquare(Q2sq))
      /\ a.E # None => (RLess(R0, kisq) /\ RIsSquare(kisq))

InitArgs ==
  /\ call_fn = "calc"
  /\ call_args \in [ki : AnyKi, kf : AnyKf, E : AnyE, Q : AnyQ,
                     twotheta : AnyTwotheta]
  /\ ArgsExact(call_args, DefaultParams)
  /\ call_pc = "start"
  /\ call_out = DefaultParams
  /\ NoModel

ProcessCommandLine ==
  /\ call_fn = "calc"
  /\ call_pc = "start"
  /\ call_out' = ProcessArgs(call_args, call_out)
  /\ call_pc' = "done"
  /\ UNCHANGED <<call_fn, call_args>>
  /\ UNCHANGED <<frameVars, geVars, scanVars, poolVars, takinVars>>

NextArgs == ProcessCommandLine
SpecArgs == InitArgs /\ [][NextArgs]_vars

(***************************************************************************)
(* The loops over the energies of one Q point, for any value of the        *)
(* option only_positive_energies / only_pos_E and any returned energies    *)
(***************************************************************************)
MaxBranchEnergies == 2
FilterEnergies == {-1, 0, 1}
FilterWeights == {0, 1}
FilterScripts == {"tests_ferro", "calc_dispersion", "load_model", "calc3", "calc2"}
FilterResults ==
  UNION { [1..n -> [E : FilterEnergies, weight : FilterWeights]] :
          n \in 0..MaxBranchEnergies }

\* calc2.py, the body of "for S in mag.CalcEnergies(...)"
RECURSIVE Calc2Body(_, _)
Calc2Body(only_pos, results) ==
  IF results = <<>> THEN <<>>
  ELSE IF only_pos /\ Head(results).E < 0
  THEN Calc2Body(only_pos, Tail(results))
  ELSE << [h |-> 0, E |-> Head(results).E,
           S |-> Clamped(Head(results).weight * S_scale)] >>
       \o Calc2Body(only_pos, Tail(results))

\* tests/ferro.py, the body of "for E in get_energies(Qvec)"
TestsBodyNonStrict(only_pos, results) ==
  LET kept == SelectSeq(results, LAMBDA r : ~(only_pos /\ r.E <= 0))
  IN  [i \in 1..Len(kept) |-> [h |-> 0, E |-> kept[i].E]]
TestsBody(only_pos, results) ==
  LET kept == KeptEnergies([i \in 1..Len(results) |-> <<results[i].E, 1>>],
                           only_pos)
  IN  [i \in 1..Len(kept) |-> [h |-> 0, E |-> kept[i][1]]]

\* the points the loop of a script collects for one Q point
FilterBody(script, only_pos, results) ==
  IF script = "tests_ferro" THEN TestsBody(only_pos, results)
  ELSE IF script = "calc2" THEN Calc2Body(only_pos, results)
  ELSE CollectedWith(only_pos, script, CalcEs(0, results))

InitFilter ==
  /\ call_fn \in FilterScripts
  /\ call_args \in [only_pos : BOOLEAN, results : FilterResults]
  /\ call_pc = "start"
  /\ call_out = <<>>
  /\ NoModel

FilterLoop ==
  /\ call_fn \in FilterScripts
  /\ call_pc = "start"
  /\ call_out' = FilterBody(call_fn, call_args.only_pos, call_args.results)
  /\ call_pc' = "done"
  /\ UNCHANGED <<call_fn, call_args>>
  /\ UNCHANGED <<frameVars, geVars, scanVars, poolVars, takinVars>>

NextFilter == FilterLoop
SpecFilter == InitFilter /\ [][NextFilter]_vars

(***************************************************************************)
(* append_data on the five lists data_h, data_k, data_l, data_E, data_S,   *)
(* for any values of the weight options                                    *)
(***************************************************************************)
MaxAppendCalls == 2
AnyOptions ==
  [S_scale : {1, 64}, S_filter_min : {-1, 0, 64},
   S_clamp_min : {0, 1}, S_clamp_max : {10, 500}]
AppendEnergies == {-1, 2}
AppendWeights == {-1, 0, 1, 10}

NoData ==
  [data_h |-> <<>>, data_k |-> <<>>, data_l |-> <<>>,
   data_E |-> <<>>, data_S |-> <<>>]

\* append_data(h, k, l, E, S): the lists after the call
append_data_filter_late(opt, lists, h, k, l, E, S) ==
  LET weight == S * opt.S_scale
      hkl == [lists EXCEPT !.data_h = Append(@, h), !.data_k = Append(@, k),
                           !.data_l = Append(@, l)]
  IN  IF weight < opt.S_filter_min THEN hkl
      ELSE [hkl EXCEPT !.data_E = Append(@, E),
                       !.data_S = Append(@, ClampedTo(weight, opt))]
append_data(opt, lists, h, k, l, E, S) ==
  LET weight == S * opt.S_scale
  IN  IF weight < opt.S_filter_min THEN lists
      ELSE [data_h |-> Append(lists.data_h, h),
            data_k |-> Append(lists.data_k, k),
            data_l |-> Append(lists.data_l, l),
            data_E |-> Append(lists.data_E, E),
            data_S |-> Append(lists.data_S, ClampedTo(weight, opt))]

InitAppend ==
  /\ call_fn = "append_data"
  /\ call_args \in [opt : AnyOptions, last : {<<>>}, n : {0}]
  /\ call_pc = "start"
  /\ call_out = NoData
  /\ NoModel

\* one call of append_data
AppendDataCall ==
  /\ call_fn = "append_data"
  /\ call_args.n < MaxAppendCalls
  /\ \E E \in AppendEnergies, S \in AppendWeights :
       /\ call_out' = append_data(call_args.opt, call_out, 1, 2, 3, E, S)
       /\ call_args' = [call_args EXCEPT !.last = <<1, 2, 3, E, S>>,
                                          !.n = @ + 1]
  /\ call_pc' = "called"
  /\ UNCHANGED call_fn
  /\ UNCHANGED <<frameVars, geVars, scanVars, poolVars, takinVars>>

NextAppend == AppendDataCall
SpecAppend == InitAppend /\ [][NextAppend]_vars

(***************************************************************************)
(* One tuple (h, k, l, E, weight) handed to append_data and to the inline  *)
(* statements of calc3.py, under the same option values                    *)
(***************************************************************************)
InitInline ==
  /\ call_fn = "filter_and_clamp"
  /\ call_args \in [opt : AnyOptions,
                     t : [h : {0}, E : AppendEnergies, weight : AppendWeights]]
  /\ call_pc = "start"
  /\ call_out = <<>>
  /\ NoModel

FilterAndClamp ==
  /\ call_fn = "filter_and_clamp"
  /\ call_pc = "start"
  /\ call_out' =
       [append_data |-> AppendDataWith(call_args.opt, "calc_dispersion",
                                       call_args.t),
        calc3 |-> AppendDataWith(call_args.opt, "calc3", call_args.t)]
  /\ call_pc' = "done"
  /\ UNCHANGED <<call_fn, call_args>>
  /\ UNCHANGED <<frameVars, geVars, scanVars, poolVars, takinVars>>

NextInline == FilterAndClamp
SpecInline == InitInline /\ [][NextInline]_vars

(***************************************************************************)
(* "find scan axis" of calc_dispersion.py, calc3.py and plot_dyn.py        *)
(***************************************************************************)
MaxAxisCoord == 2
AxisPoints == (0..MaxAxisCoord) \X (0..MaxAxisCoord) \X (0..MaxAxisCoord)

\* Q_diff = [ numpy.abs(hkl_start[0] - hkl_end[0]), ... ], counted from 1
QDiff(hkl_start, hkl_end) ==
  [c \in 1..3 |-> IF hkl_start[c] >= hkl_end[c]
                  THEN hkl_start[c] - hkl_end[c]
                  ELSE hkl_end[c] - hkl_start[c]]

\* axis_idx / plot_idx, counted from 0 as in the scripts
FindScanAxis(hkl_start, hkl_end) ==
  LET Q_diff == QDiff(hkl_start, hkl_end)
  IN  IF Q_diff[2] > Q_diff[1] THEN 1
      ELSE IF Q_diff[3] > Q_diff[1] THEN 2
      ELSE 0

InitAxis ==
  /\ call_fn = "find_scan_axis"
  /\ call_args \in [hkl_start : AxisPoints, hkl_end : AxisPoints]
  /\ call_pc = "start"
  /\ call_out = <<>>
  /\ NoModel

FindAxis ==
  /\ call_fn = "find_scan_axis"
  /\ call_pc = "start"
  /\ call_out' = [axis_idx |-> FindScanAxis(call_args.hkl_start,
                                             call_args.hkl_end)]
  /\ call_pc' = "done"
  /\ UNCHANGED <<call_fn, call_args>>
  /\ UNCHANGED <<frameVars, geVars, scanVars, poolVars, takinVars>>

NextAxis == FindAxis
SpecAxis == InitAxis /\ [][NextAxis]_vars

(***************************************************************************)
(* Calls of get_energies one after the other on one model, as the scan     *)
(* loops and TakinDisp / TakinSqw make them                                *)
(***************************************************************************)
MaxCalls == 3        \* calls of get_energies on one model

\* 4 * Qvec of a call
CallQValues ==
  { <<0, 0, 0>>, <<1, 0, 0>>, <<-1, 0, 0>>, <<2, 1, 0>>, <<-2, -1, 0>> }

\* the models of the calls: site and coupling lists after the module-level
\* loops, of tests/ferro.py (both orders) and fm.py among them, and every
\* other one that is held exactly and has a Q at which the solve succeeds
CallModels ==
  { <<Framed(TestsFerroSites), JRealed(TestsFerroCouplings)>>,
    <<Framed(TestsAfmSites), JRealed(TestsAfmCouplings)>>,
    <<FmSites, FmCouplings>> }
  \cup
  { m \in UNION { { <<Framed(st), JRealed(cpls)>> :
                       cpls \in CouplingLists(st) } : st \in SiteConfigs } :
      /\ \A Q \in CallQValues : Representable(m[1], m[2], Q)
      /\ \E Q \in CallQValues : GetEnergies(m[1], m[2], Q).raised = "none" }

\* J_fourier = np.zeros(...), J0_fourier = np.zeros(...): each call binds
\* its accumulators to new zero arrays, whatever an earlier call left
NewBlocksKept(st, left) == IF left = <<>> THEN ZeroBlocks(st) ELSE left
NewBlocks(st, left) == ZeroBlocks(st)

InitCalls ==
  /\ \E m \in CallModels :
       /\ sites = m[1]
       /\ couplings = m[2]
  /\ site_idx = NumSites(sites)
  /\ rot = SpinRotation(sites[NumSites(sites) - 1].Sdir)
  /\ Qvec = <<0, 0, 0>>
  /\ cpl_idx = 1
  /\ J_fourier = <<>>
  /\ J0_fourier = <<>>
  /\ H = <<>>
  /\ ge_pc = "idle"
  /\ ge_Es = <<>>
  /\ ge_calls = <<>>
  /\ ge_script = "tests"
  /\ ScanIdle
  /\ PoolIdle
  /\ TakinIdle
  /\ CallIdle

\* one call get_energies(Qvec), from its first statement to its return or
\* to the exception of la.cholesky
CallGetEnergies ==
  /\ ge_pc = "idle"
  /\ Len(ge_calls) < MaxCalls
  /\ \E Q \in CallQValues :
     \E Jf \in {FourierLoop(NewBlocks(sites, J_fourier), couplings, Q, 1)} :
     \E J0 \in {Fourier0Loop(NewBlocks(sites, J0_fourier), couplings, 1)} :
     \E Hm \in {Hamiltonian(sites, Jf, J0)} :
     \E r \in {SolveFor(Hm)} :
        /\ Qvec' = Q
        /\ J_fourier' = Jf
        /\ J0_fourier' = J0
        /\ H' = Hm
        /\ cpl_idx' = Len(couplings) + 1
        /\ ge_Es' = r.Es
        /\ ge_calls' = Append(ge_calls,
                              [Qvec |-> Q, raised |-> r.raised, Es |-> r.Es])
  /\ UNCHANGED <<frameVars, couplings, ge_pc, ge_script>>
  /\ UNCHANGED <<scanVars, poolVars, takinVars, callVars>>

NextCalls == CallGetEnergies
SpecCalls == InitCalls /\ [][NextCalls]_vars

(***************************************************************************)
(* Properties of the frame builder                                         *)
(***************************************************************************)
\* C9: once the loop body has run for a site, whatever its direction
\* (along z, against z or generic), the matrix rot it has computed is a
\* proper rotation: rot * rot^T is the unit matrix and det(rot) = 1.
RotationProper ==
  (ge_pc = "idle" /\ site_idx > 0) =>
     /\ RMatMul(rot, RMatTranspose(rot)) = RDiag(R1)
     /\ RDet3(rot) = R1

\* the last site processed is a generic one, after one against z
RotationProperWitness ==
  /\ ge_pc = "idle"
  /\ site_idx = 2
  /\ sites[0].Sdir = <<0, 0, -1>>
  /\ sites[1].Sdir = <<3, 0, -4>>
  /\ rot # RDiag(R1)

ReU(site) == Vec3(LAMBDA k : CRe(site.u[k]))
ImU(site) == Vec3(LAMBDA k : CIm(site.u[k]))

\* the frame of one site
FrameOk(site) ==
  /\ CDot(site.u, site.u) = C0
  /\ CDot(site.u, CVecConj(site.u)) = CReal(RInt(2))
  /\ RDot(site.v, site.v) = R1
  /\ RDot(site.v, ReU(site)) = R0
  /\ RDot(site.v, ImU(site)) = R0
  /\ site.v = NormalisedSdir(site.Sdir)

\* C10: every site the loop has passed has a frame with u.u = 0,
\* u.conj(u) = 2, v a real unit vector orthogonal to Re(u) and Im(u) and
\* equal to the normalised Sdir; so have the frames written down in
\* fm.py and in examples/ferro.py.
FramesOk ==
  /\ ge_pc = "idle" => \A i \in 0..(site_idx - 1) : FrameOk(sites[i])
  /\ FrameOk(FmSite)
  /\ FrameOk(ExampleSite)

\* both sites have their frame, one against z and one generic
FramesOkWitness ==
  /\ ge_pc = "idle"
  /\ site_idx = 2
  /\ sites[0].Sdir = <<0, 0, -1>>
  /\ sites[0].v = <<R0, R0, RNeg(R1)>>
  /\ sites[1].Sdir = <<0, -4, 3>>
  /\ sites[1].v = <<R0, Frac(-4, 5), Frac(3, 5)>>

\* C11: a site whose Sdir is the zero vector is rejected when the model is
\* built: the rotation loop never gives such a site a frame (u, v).
ZeroSdirRejected ==
  \A i \in DOMAIN sites :
      sites[i].Sdir = <<0, 0, 0>> => "u" \notin DOMAIN sites[i]

(***************************************************************************)
(* Properties of the Fourier assembler and of the Hamiltonian              *)
(***************************************************************************)
\* what one coupling adds to the block [i, j] of J_fourier
Contribution(cpl, Q4, i, j) ==
  CMatAdd(IF cpl.sites = <<i, j>> THEN JFt(cpl, Q4) ELSE CMat0,
          IF cpl.sites = <<j, i>> THEN CMatAdjoint(JFt(cpl, Q4)) ELSE CMat0)
\* and to the block [i, j] of J0_fourier
Contribution0(cpl, i, j) ==
  CMatAdd(IF cpl.sites = <<i, j>> THEN CMatOfReal(cpl.J_real) ELSE CMat0,
          IF cpl.sites = <<j, i>>
          THEN CMatAdjoint(CMatOfReal(cpl.J_real)) ELSE CMat0)

\* sums of the contributions of the couplings at the positions ks, taken
\* in no particular order
RECURSIVE BlockSum(_, _, _, _, _)
BlockSum(cpls, ks, Q4, i, j) ==
  IF ks = {} THEN CMat0
  ELSE LET k == CHOOSE x \in ks : TRUE
       IN  CMatAdd(Contribution(cpls[k], Q4, i, j),
                   BlockSum(cpls, ks \ {k}, Q4, i, j))
RECURSIVE BlockSum0(_, _, _, _)
BlockSum0(cpls, ks, i, j) ==
  IF ks = {} THEN CMat0
  ELSE LET k == CHOOSE x \in ks : TRUE
       IN  CMatAdd(Contribution0(cpls[k], i, j),
                   BlockSum0(cpls, ks \ {k}, i, j))

Reversed(seq) == [k \in 1..Len(seq) |-> seq[Len(seq) + 1 - k]]
InGetEnergies == ge_pc \in {"fourier", "trafo", "eigvals", "returned", "LinAlgError"}

\* C7: the assembler accumulates: with the couplings processed so far,
\* each block J_fourier[i, j] is the sum of Jreal*phase over the couplings
\* stored on (i, j) plus the sum of the conjugate transposes of Jreal*phase
\* over the couplings stored on (j, i), and J0_fourier likewise without the
\* phase; at the end of the loop the arrays are those the loop produces
\* from the list in the opposite order.
FourierAccumulates ==
  InGetEnergies =>
    /\ \A i, j \in DOMAIN sites :
         /\ At(J_fourier, i, j)
              = BlockSum(couplings, 1..(cpl_idx - 1), Qvec, i, j)
         /\ At(J0_fourier, i, j)
              = BlockSum0(couplings, 1..(cpl_idx - 1), i, j)
    /\ cpl_idx > Len(couplings) =>
         /\ J_fourier
              = FourierLoop(ZeroBlocks(sites), Reversed(couplings), Qvec, 1)
         /\ J0_fourier
              = Fourier0Loop(ZeroBlocks(sites), Reversed(couplings), 1)

\* two different couplings on the same pair of sites have been processed
FourierAccumulatesWitness ==
  /\ InGetEnergies
  /\ cpl_idx = 3
  /\ couplings[1].sites = <<0, 1>>
  /\ couplings[2].sites = <<0, 1>>
  /\ couplings[1].J # couplings[2].J
  /\ At(J_fourier, 0, 1) # JFt(couplings[2], Qvec)
  /\ At(J_fourier, 0, 1) # JFt(couplings[1], Qvec)

\* C8: after any number of passes of the loop, J_fourier[j, i] is the
\* conjugate transpose of J_fourier[i, j] and J0_fourier[j, i] the
\* transpose of J0_fourier[i, j] for all sites i, j; with i = j, every
\* diagonal block of J_fourier is Hermitian.
FourierBlocksAdjoint ==
  InGetEnergies =>
    \A i, j \in DOMAIN sites :
      /\ At(J_fourier, j, i) = CMatAdjoint(At(J_fourier, i, j))
      /\ At(J0_fourier, j, i) = CMatTranspose(At(J0_fourier, i, j))

\* a self-coupling and a coupling between two sites have been processed,
\* and both blocks have entries that are not real
FourierBlocksAdjointWitness ==
  /\ InGetEnergies
  /\ cpl_idx = 3
  /\ couplings[1].sites = <<0, 0>>
  /\ couplings[2].sites = <<1, 0>>
  /\ \E r, c \in I3 : CIm(At(J_fourier, 0, 0)[r][c]) # R0
  /\ \E r, c \in I3 : CIm(At(J_fourier, 0, 1)[r][c]) # R0

IsHermitian(Hm) ==
  \A a, b \in 1..Len(Hm) : Hm[a][b] = CConj(Hm[b][a])

\* C6: the matrix H that get_energies has assembled is Hermitian,
\* H[a, b] = conj(H[b, a]) for all a and b, for every model and every Q.
HamiltonianHermitian ==
  ge_pc \in {"trafo", "eigvals", "returned", "LinAlgError"} => IsHermitian(H)

\* H of a model of two sites with a self-coupling and a second coupling
\* on a pair of sites, with an entry that is not real in its lower left
\* quarter
HamiltonianHermitianWitness ==
  /\ ge_pc = "trafo"
  /\ NumSites(sites) = 2
  /\ Len(couplings) = 2
  /\ couplings[1].sites = <<0, 0>>
  /\ couplings[2].sites = <<0, 1>>
  /\ \E a \in 3..4, b \in 1..2 : CIm(H[a][b]) # R0

\* the self-energy of site i: S_j * v_i . J0[i, j] . v_j summed over j
SelfEnergy(st, J0, i) ==
  CSumTo(NumSites(st), LAMBDA j :
     CScale(st[j].S, Bilinear(CVecOfReal(st[i].v), At(J0, i, j),
                              CVecOfReal(st[j].v))))

\* C21: in the H that the loops of tests/ferro.py and fm.py have filled,
\* for every site i the entries H[i, i] and H[N + i, N + i] hold, beside
\* their own term in J_fourier[i, i], the correction
\* - S_j * v_i . J0_fourier[i, j] . v_j summed over all sites j, and the
\* correction is the same in both.
DiagonalCorrected ==
  (ge_script = "tests" /\ ge_pc \in {"trafo", "eigvals", "returned", "LinAlgError"}) =>
    \A i \in DOMAIN sites :
        LET n   == NumSites(sites)
            S   == HalfSqrt(sites[i].S, sites[i].S)
            u_i == sites[i].u
            Jii == At(J_fourier, i, i)
            up  == CScale(S, Bilinear(u_i, Jii, CVecConj(u_i)))
            low == CScale(S, Bilinear(CVecConj(u_i), Jii, u_i))
        IN  /\ CSub(At(H, i, i), up) = CNeg(SelfEnergy(sites, J0_fourier, i))
            /\ CSub(At(H, n + i, n + i), low) = CSub(At(H, i, i), up)

\* H of a two-site model in which site 0 has a coupling to itself and one
\* to site 1, so that two terms make up its correction
DiagonalCorrectedWitness ==
  /\ ge_script = "tests"
  /\ ge_pc = "trafo"
  /\ NumSites(sites) = 2
  /\ At(J0_fourier, 0, 0) # CMat0
  /\ At(J0_fourier, 0, 1) # CMat0
  /\ SelfEnergy(sites, J0_fourier, 0) # C0
  /\ SelfEnergy(sites, J0_fourier, 1) # C0

\* C12: a coupling with a site index outside [0, N) is rejected before any
\* solve: the loop of get_energies has never passed (read a block for and
\* accumulated) a coupling that carries such an index.
InvalidSiteIndexRejected ==
  ge_script = "tests" =>
    \A k \in 1..(cpl_idx - 1) :
        \A e \in 1..2 :
            0 <= couplings[k].sites[e] /\ couplings[k].sites[e] < NumSites(sites)

\* np.cos(2.*np.pi * n / 4)
CosQuarters(n) == CRe(Phase(n))
\* create_random_data.py (magnon_fm): disp(Q), with Q in quarters
disp(Q4) ==
  LET J == -1
      S == 1
      d == 1
  IN  RMul(RInt(-2 * J * S), RSub(R1, CosQuarters(Q4 * d)))
\* create_random_data.py (mdanse_school_tut2_fm): disp_fm(Q), Q in quarters
disp_fm(Q4) ==
  LET J == -1
      S == 1
      d == 1
  IN  RMul(RInt(2 * J * S), RSub(CosQuarters(Q4 * d), R1))

\* C14: for the single ferromagnetic site (S = 1, J = -1, dist = (1,0,0))
\* get_energies returns, at every h of the scan over [-1, 1], the energy
\* E(h) = 2|J|S(1 - cos(2 pi h)), the value of disp(h) and of disp_fm(h):
\* every h the scan has passed is in hs with that energy.
FerroDispersionReturned ==
  scan_script = "tests_ferro" =>
    \A i \in DOMAIN ge_log :
        \E j \in DOMAIN hs :
            /\ hs[j] = ge_log[i][1]
            /\ Es[j] = disp(hs[j])
            /\ Es[j] = disp_fm(hs[j])

NoDMI ==
  \A k \in DOMAIN couplings :
      "DMI" \in DOMAIN couplings[k] => couplings[k].DMI = <<0, 0, 0>>
EnergySet(call) == { call.Es[e] : e \in DOMAIN call.Es }
Opposite(Q4) == <<-Q4[1], -Q4[2], -Q4[3]>>
ParticleHoleSymmetric ==
  (ge_pc = "idle" /\ NoDMI) =>
    \A i, j \in DOMAIN ge_calls :
        ( /\ ge_calls[j].Qvec = Opposite(ge_calls[i].Qvec)
          /\ ge_calls[i].raised = "none"
          /\ ge_calls[j].raised = "none" )
        => EnergySet(ge_calls[j]) = { RNeg(E) : E \in EnergySet(ge_calls[i]) }

\* the two-site chain solved at Q = (1/4, 0, 0) and then at -Q
ParticleHoleSymmetricWitness ==
  /\ NoDMI
  /\ NumSites(sites) = 2
  /\ Len(ge_calls) >= 2
  /\ ge_calls[1].Qvec = <<1, 0, 0>>
  /\ ge_calls[2].Qvec = <<-1, 0, 0>>
  /\ ge_calls[1].raised = "none"
  /\ ge_calls[2].raised = "none"
  /\ ge_calls[2].Es = <<RInt(2), RInt(2), RInt(-2), RInt(-2)>>

\* C17: a call of get_energies that returns, on a model of N sites, returns
\* exactly 2N energies, N of them positive and N of them negative.
NumPositive(es) == Cardinality({ e \in DOMAIN es : RLess(R0, es[e]) })
NumNegative(es) == Cardinality({ e \in DOMAIN es : RLess(es[e], R0) })
HalfPositiveHalfNegative ==
  ge_pc = "idle" =>
    \A i \in DOMAIN ge_calls :
        ge_calls[i].raised = "none" =>
          /\ Len(ge_calls[i].Es) = 2 * NumSites(sites)
          /\ NumPositive(ge_calls[i].Es) = NumSites(sites)
          /\ NumNegative(ge_calls[i].Es) = NumSites(sites)

\* a successful call on a two-site model, with degenerate energies
HalfPositiveHalfNegativeWitness ==
  /\ NumSites(sites) = 2
  /\ Len(ge_calls) = 1
  /\ ge_calls[1].raised = "none"
  /\ Len(ge_calls[1].Es) = 4
  /\ ge_calls[1].Es[1] = ge_calls[1].Es[2]

\* C13: get_energies is a pure function of the model and of Qvec: a call
\* leaves sites and couplings as they were, and any two calls with the same
\* Qvec end alike (same exception or same energies), whatever calls were
\* made between them.
SameQSameOutcome ==
  \A i, j \in DOMAIN ge_calls :
      ge_calls[i].Qvec = ge_calls[j].Qvec => ge_calls[i] = ge_calls[j]
GetEnergiesPure ==
  /\ [](ge_pc = "idle" => SameQSameOutcome)
  /\ [][sites' = sites /\ couplings' = couplings]_vars

\* three calls, the first and the third with one Qvec, the second with
\* another Qvec and other energies
GetEnergiesPureWitness ==
  /\ Len(ge_calls) = 3
  /\ ge_calls[1].Qvec = ge_calls[3].Qvec
  /\ ge_calls[2].Qvec # ge_calls[1].Qvec
  /\ ge_calls[1].raised = "none"
  /\ ge_calls[2].raised = "none"
  /\ ge_calls[2].Es # ge_calls[1].Es
  /\ ge_calls[3].Es = ge_calls[1].Es

(***************************************************************************)
(* Properties of the Bose factor                                           *)
(***************************************************************************)
\* C19: bose_cutoff with a nonzero Ecut never evaluates bose at an energy
\* of magnitude below |Ecut|, E = 0 included, so bose never divides by zero:
\* in a TakinSqw call that has reached bose_cutoff(E, g_T, g_bose_cut) the
\* energy handed to bose is at least |g_bose_cut| in magnitude.
BoseNeverBelowCutoff ==
  (takin_fn = "TakinSqw" /\ takin_pc = "done" /\ takin_out.raised = "none") =>
     /\ Abs(BoseCutoffArg(takin_args.E, g_bose_cut)) >= Abs(g_bose_cut)
     /\ ~BoseRaises(BoseCutoffArg(takin_args.E, g_bose_cut))

(***************************************************************************)
(* Properties of the scans                                                 *)
(***************************************************************************)
\* the data points of the tasks i, i + 1, ... in the order of submission
RECURSIVE InSubmissionOrder(_, _, _)
InSubmissionOrder(script, futures, i) ==
  IF i > Len(futures) THEN <<>>
  ELSE Collected(script, futures[i].result)
       \o InSubmissionOrder(script, futures, i + 1)

\* C1: in the pooled scans the data points are collected in the order in
\* which their Q points were submitted (the order of numpy.linspace from
\* hkl_start to hkl_end), in whatever order the tasks complete: the points
\* of an earlier Q come before those of a later Q, and at the end the data
\* are the results of the tasks, filtered, one task after the other.
PoolKeepsSubmissionOrder ==
  pool_script \in PoolScripts =>
    /\ \A a, b \in DOMAIN data : a < b => data[a].h <= data[b].h
    /\ pool_pc = "done" => data = InSubmissionOrder(pool_script, pool_futures, 1)

\* the scan is over, the second task completed first and the last one
\* before the first, and the first and the last task both gave data
PoolKeepsSubmissionOrderWitness ==
  /\ pool_script = "calc_dispersion"
  /\ pool_pc = "done"
  /\ pool_num = 3
  /\ pool_order = <<2, 3, 1>>
  /\ Len(data) >= 2
  /\ data[1].h = 0
  /\ data[Len(data)].h = 2

\* C20: the tasks of a pooled scan share no mutable state.  What a task
\* returns is its own list, holding the tuples of its own Q point only, and
\* a task has none before it is done; a step that starts or ends a task
\* leaves the accumulators data_h .. data_S as they are, and they grow only
\* in a pass of the collecting loop of the submitting thread, which leaves
\* the tasks as they are.
TaskResultsLocal ==
  \A i \in DOMAIN pool_futures :
      /\ pool_futures[i].state # "done" => pool_futures[i].result = <<>>
      /\ \A n \in DOMAIN pool_futures[i].result :
             pool_futures[i].result[n].h = pool_futures[i].q
OnlyCollectorAppends ==
  /\ pool_futures' # pool_futures => data' = data
  /\ data' # data =>
        /\ pool_pc = "collect"
        /\ Len(pool_collected') = Len(pool_collected) + 1
        /\ pool_futures' = pool_futures
WorkersShareNoState ==
  /\ [](pool_script \in PoolScripts => TaskResultsLocal)
  /\ [][OnlyCollectorAppends]_vars

\* two tasks are done, both with tuples, a third is still running, and the
\* collecting loop has appended the data of the first
WorkersShareNoStateWitness ==
  /\ pool_script = "calc_dispersion"
  /\ pool_pc = "collect"
  /\ Len(pool_futures) = 3
  /\ pool_futures[1].state = "done"
  /\ pool_futures[2].state = "done"
  /\ pool_futures[3].state = "running"
  /\ pool_futures[1].result # <<>>
  /\ pool_futures[2].result # <<>>
  /\ pool_collected = <<1>>
  /\ data # <<>>

IsPrefix(a, b) == Len(a) <= Len(b) /\ SubSeq(b, 1, Len(a)) = a
InScan == scan_script \in ScanScripts
\* get_energies raises at the point h of the running scan
FailsAt(h) ==
  ScanGetEnergies(scan_script, sites, couplings, <<h, 0, 0>>).raised # "none"

\* C2: a failure of the solve at one Q does not end the scan: the pass of
\* the loop in which get_energies raises leaves hs and Es as they are and
\* goes on to the next point, no pass removes or changes what hs and Es
\* hold, and get_energies has been called for every point up to the
\* current one, so at the end for all of them.
ScanContinues ==
  /\ [](InScan =>
          ge_log = [k \in 1..scan_k |-> <<Linspace4(scan_num, k - 1), 0, 0>>])
  /\ [][InScan =>
          /\ IsPrefix(hs, hs')
          /\ IsPrefix(Es, Es')
          /\ FailsAt(Linspace4(scan_num, scan_k)) =>
               (hs' = hs /\ Es' = Es /\ scan_k' = scan_k + 1)]_vars

\* the antiferromagnetic scan over nine points is over: it failed at every
\* second point, the middle one included, and has the energies of the rest
ScanContinuesWitness ==
  /\ scan_script = "tests_afm"
  /\ scan_only_pos
  /\ scan_num = 9
  /\ scan_k = 9
  /\ FailsAt(0)
  /\ hs = <<-3, -3, -1, -1, 1, 1, 3, 3>>
  /\ Len(ge_log) = 9

\* C3: no error of a point is dropped silently: for every Q of the scan at
\* which the solve has failed, the output of the scan holds a record for
\* that Q.
NoErrorDropped ==
  InScan =>
    \A k \in 1..Len(ge_log) :
      FailsAt(ge_log[k][1]) => \E i \in DOMAIN hs : hs[i] = ge_log[k][1]

\* C4: a scan over scan_num values of Q ends with exactly scan_num results
\* per Q, the first at the start and the last at the end of the range,
\* whether or not points have failed.
ScanYieldsNumPoints ==
  (InScan /\ scan_k = scan_num) =>
    /\ Cardinality({ hs[i] : i \in DOMAIN hs }) = scan_num
    /\ hs # <<>>
    /\ hs[1] = Linspace4(scan_num, 0)
    /\ hs[Len(hs)] = Linspace4(scan_num, scan_num - 1)

\* C5: when H is not positive definite at Q, a call of TakinDisp or
\* TakinSqw returns a result to its caller; it does not end with an
\* exception.
InstabilityReturned ==
  (takin_pc = "done"
     /\ ~CholeskyOk(HamiltonianAt(sites, couplings, takin_args.Q)))
  => takin_out.raised = "none"

(***************************************************************************)
(* Properties of the two paths of calc_disp                                *)
(***************************************************************************)
\* the data the serial loops build from the results of the first n Q points
RECURSIVE SerialData(_, _, _)
SerialData(script, results, n) ==
  IF n = 0 THEN <<>>
  ELSE SerialData(script, results, n - 1)
       \o SerialBody(script, n - 1, results[n - 1])

\* C22: the pooled path and the serial path of calc_disp produce the same
\* data lists: when a run has ended, on either path, its data are the data
\* the serial loops build from the energies and weights the magnon
\* calculation returned for each Q point, whatever the order in which the
\* tasks of the pool finished.
PooledEqualsSerial ==
  pool_pc = "done" => data = SerialData(pool_script, mag_results, pool_num)

PooledEqualsSerialWitness ==
  /\ pool_pc = "done"
  /\ Len(pool_futures) = 3
  /\ pool_order = <<2, 3, 1>>
  /\ mag_results[0] = << [E |-> -1, weight |-> 0], [E |-> 2, weight |-> 10] >>
  /\ mag_results[1] = << [E |-> 1, weight |-> 1] >>
  /\ Len(data) = 2

(***************************************************************************)
(* Properties of the energy filter                                         *)
(***************************************************************************)
EnergiesOf(points) == [i \in 1..Len(points) |-> points[i].E]

\* C23: with only_positive_energies / only_pos_E enabled no collected point
\* has E < 0 and every returned energy E >= 0, an energy of exactly 0
\* included, is collected; with the option disabled every returned energy
\* is collected.
OnlyPositiveFilter ==
  (call_fn \in FilterScripts /\ call_pc = "done") =>
    LET returned == EnergiesOf(call_args.results)
        collected == EnergiesOf(call_out)
    IN  IF call_args.only_pos
        THEN /\ \A i \in DOMAIN collected : collected[i] >= 0
             /\ collected = SelectSeq(returned, LAMBDA e : e >= 0)
        ELSE collected = returned

OnlyPositiveFilterWitness ==
  /\ call_fn = "tests_ferro"
  /\ call_pc = "done"
  /\ call_args.only_pos
  /\ EnergiesOf(call_args.results) = <<-1, 0>>
  /\ EnergiesOf(call_out) = <<0>>

(***************************************************************************)
(* Properties of append_data                                               *)
(***************************************************************************)
ListsAligned(lists) ==
  /\ Len(lists.data_h) = Len(lists.data_S)
  /\ Len(lists.data_k) = Len(lists.data_S)
  /\ Len(lists.data_l) = Len(lists.data_S)
  /\ Len(lists.data_E) = Len(lists.data_S)

WeightsClamped(lists, opt) ==
  \A i \in DOMAIN lists.data_S :
    /\ lists.data_S[i] >= opt.S_clamp_min
    /\ lists.data_S[i] <= opt.S_clamp_max

\* a call with the arguments a changed none of the lists exactly if the
\* scaled weight is below S_filter_min, and added one entry to each otherwise
DroppedIffBelowFilter ==
  call_fn = "append_data" =>
    LET a == call_args'.last
        opt == call_args.opt
    IN  /\ (call_out' = call_out) <=> (a[5] * opt.S_scale < opt.S_filter_min)
        /\ (call_out' # call_out) =>
             /\ Len(call_out'.data_S) = Len(call_out.data_S) + 1
             /\ ListsAligned(call_out')

\* C24: after any sequence of append_data calls the five lists have the
\* same length and every stored weight lies in [S_clamp_min, S_clamp_max];
\* a call drops its point, changing none of the lists, exactly if the scaled
\* weight S * S_scale is below S_filter_min.
AppendDataInvariants ==
  /\ [](call_fn = "append_data" =>
          /\ ListsAligned(call_out)
          /\ WeightsClamped(call_out, call_args.opt))
  /\ [][DroppedIffBelowFilter]_vars

AppendDataInvariantsWitness ==
  /\ call_fn = "append_data"
  /\ call_args.n = 2
  /\ call_args.opt.S_filter_min = 0
  /\ call_args.last[5] = -1
  /\ call_out.data_S = <<10>>
  /\ call_out.data_E = <<2>>
  /\ call_args.opt.S_scale = 64

\* C25: the inline filter-and-clamp of calc3.py stores the same points with
\* the same weights as append_data, for every raw weight and every setting
\* of S_scale, S_filter_min, S_clamp_min and S_clamp_max, a scaled weight
\* equal to S_filter_min included.
InlineSameAsAppendData ==
  (call_fn = "filter_and_clamp" /\ call_pc = "done") =>
    call_out.calc3 = call_out.append_data

LeavesWhenAllFinished ==
  (pool_pc = "progress" /\ pool_pc' # "progress") =>
    /\ Len(pool_futures) = pool_num
    /\ NumFinished(pool_futures) = Len(pool_futures)
    /\ pool_pc' = "collect"

\* the counts printed so far never go down
ReportsNeverDecrease ==
  \A i, j \in DOMAIN pool_reports : i <= j => pool_reports[i] <= pool_reports[j]

\* C27: with print_progress enabled the progress loop is left only when
\* the number of finished tasks equals the number of submitted tasks, the
\* reported number of finished tasks never decreases, and the loop is left
\* eventually, given that every task ends (with a result or an exception).
ProgressLoopTerminates ==
  /\ [][LeavesWhenAllFinished]_vars
  /\ []ReportsNeverDecrease
  /\ (pool_pc = "progress") ~> (pool_pc # "progress")

ProgressLoopTerminatesWitness ==
  /\ pool_print_progress
  /\ pool_pc = "collect"
  /\ Len(pool_futures) = 3
  /\ pool_reports = <<0, 2, 3>>
  /\ pool_futures[2].state = "failed"

(***************************************************************************)
(* Properties of the three implementations of get_energies                 *)
(***************************************************************************)
\* C28: for one site with its spin along +z, a coupling J of the site with
\* itself along dist and no DMI, examples/ferro.py, tests/ferro.py and
\* fm.py build the same 2x2 array H and get_energies ends the same way,
\* with the same energies, in all three, for every J, S, dist and Q.
SameHamiltonianAndEnergies ==
  (call_fn = "get_energies" /\ call_pc = "done") =>
    /\ call_out.examples.H = call_out.tests.H
    /\ call_out.fm.H = call_out.tests.H
    /\ call_out.examples.r = call_out.tests.r
    /\ call_out.fm.r = call_out.tests.r

SameHamiltonianAndEnergiesWitness ==
  /\ call_fn = "get_energies"
  /\ call_pc = "done"
  /\ call_args.S = RInt(2)
  /\ call_args.dist = <<1, 1, 0>>
  /\ call_args.Q = <<2, 1, 0>>
  /\ call_out.tests.r.raised = "none"
  /\ call_out.examples.r.Es = call_out.fm.r.Es
  /\ Len(call_out.examples.r.Es) = 2

TriangleConsistent ==
  (call_fn = "calc" /\ call_pc = "done") =>
    /\ call_out.twotheta =
         get_scattering_angle(call_out.ki, call_out.kf, call_out.Q)
    /\ call_out.E = get_E(call_out.ki, call_out.kf)

=============================================================================
